---------------------------- MODULE Spec2Model ----------------------------
(***************************************************************************)
(* goodfido world server (server.js): connection registry, object          *)
(* instances, respawn sweep of the 1 Hz tick, and the privileged room      *)
(* edit handlers, as a state machine.                                      *)
(*                                                                         *)
(* Encodings of JavaScript values                                          *)
(*   - a Map is a function whose DOMAIN is the set of keys present;        *)
(*   - pickedUpBy === null is the string Null;                             *)
(*   - a numeric field holding null (removedAt, respawnAfterSec) is        *)
(*     NullNum; Truthy(n) is JavaScript truthiness of such a field;        *)
(*   - a message value whose type matters (room id, coordinates, terrain,  *)
(*     tile exits) is a record tagged with its JavaScript type, see Str,   *)
(*     Num, Obj, Absent below;                                             *)
(*   - a file is the value last written to it, after JSON serialisation.   *)
(***************************************************************************)
EXTENDS Integers, Sequences, FiniteSets, TLC

VARIABLES
    gameTime,          \* {tick, hour, day}
    stateFile,         \* state.json: the persisted clock
    clientId,          \* next connection id
    clients,           \* Map id -> readyState of the socket
    positions,         \* Map id -> player record (the connection registry)
    nameMap,           \* Map id -> name
    objectInstances,   \* array of live object instances
    objectsStateFile,  \* objects-state.json
    playerFiles,       \* players/<name>.json, by name
    npcInstances,      \* array of live NPC instances
    roomFiles,         \* world/<zone path>/<roomId>.json, by roomId (zone 0)
    sent,              \* messages sent by the last handler, in order
    everAuth,          \* history: names that were ever admitted
    lastPick,          \* history: per instance id, the last pickup request
                       \* since that instance was last dropped or respawned
    steps,             \* history: number of handler invocations so far
    lastSocket,        \* readyState of the socket whose first message was
                       \* handled last ("none" before any)
    issued,            \* history: the ids carried by the init messages so far
    npcTimers,         \* Map NPC instanceId -> the pending movement timer
    timeouts,          \* the setTimeout calls of movement timers that are
                       \* pending in the event loop
    npcStateFile,      \* npcs-state.json
    proc,              \* the process: "running", "shutting" (graceful
                       \* shutdown started), "exit0" or "exit1"
    found,             \* the arguments and the result of the last findPath
    fatalLog           \* category of the last error the process-level
                       \* handlers logged ("none" before any)

vars == << gameTime, stateFile, clientId, clients, positions, nameMap,
           objectInstances, objectsStateFile, playerFiles, npcInstances,
           roomFiles, sent, everAuth, lastPick, steps, lastSocket, issued,
           npcTimers, timeouts, npcStateFile, proc, found, fatalLog >>

-----------------------------------------------------------------------------
(* Bounds of the model *)

MaxSteps == 6
MaxEdits == 2
MaxConns == 2
MaxDim == 3

(* Program constants *)

PrivilegeRequired == 10
MaxRoomSize == 100
TicksPerHour == 60
HoursPerDay == 24
DaysPerYear == 360
NumColors == 6
NpcBaseTileDuration == 320
TickMs == 1000
NullNum == -1

(* Every handler invocation counts against the exploration budget *)
Step == steps < MaxSteps /\ steps' = steps + 1

EditStep == steps < MaxEdits /\ steps' = steps + 1

Null == "null"
Truthy(n) == n # NullNum /\ n # 0

-----------------------------------------------------------------------------
(* Generic helpers *)

Min(S) == CHOOSE m \in S : \A k \in S : m <= k

RECURSIVE AscendingIds(_)
AscendingIds(S) ==
    IF S = {} THEN << >>
    ELSE LET m == Min(S) IN << m >> \o AscendingIds(S \ {m})

RECURSIVE FlattenSeq(_)
FlattenSeq(ss) ==
    IF ss = << >> THEN << >> ELSE Head(ss) \o FlattenSeq(Tail(ss))

(* mutant: a delete that leaves the entry *)
MapRemoveNothing(f, k) == f

MapRemove(f, k) == [j \in DOMAIN f \ {k} |-> f[j]]
MapPut(f, k, v) == [j \in DOMAIN f \cup {k} |-> IF j = k THEN v ELSE f[j]]

-----------------------------------------------------------------------------
(* The world: one zone, key "0", with rooms 0 and 1; a second zone key that *)
(* clients may name in their messages.                                      *)

DefaultZone == "0"
ZoneKeys == {"0", "1"}
RoomIds == {0, 1}
Names == {"Ava", "Bo"}
Colors == << "red", "green", "blue", "orange", "purple", "yellow" >>

(* spawns[] of the room files, as gathered at boot *)
SpawnDefs ==
    << [typeId |-> "apple", zone |-> "0", roomId |-> 0, x |-> 1, y |-> 1,
        respawnAfterSec |-> 2],
       [typeId |-> "key", zone |-> "0", roomId |-> 1, x |-> 0, y |-> 0,
        respawnAfterSec |-> NullNum] >>

InstanceIds == << "I1", "I2" >>
UnknownInstance == "I9"
RealInstanceIds == {InstanceIds[i] : i \in DOMAIN InstanceIds}

(* "Ensure every spawn has a live instance", from an empty object state *)
NewInstance(def, iid) ==
    [instanceId |-> iid, typeId |-> def.typeId, zone |-> def.zone,
     roomId |-> def.roomId, x |-> def.x, y |-> def.y,
     pickedUpBy |-> Null, removedAt |-> NullNum,
     respawnAfterSec |-> def.respawnAfterSec]

InitObjectInstances ==
    [i \in DOMAIN SpawnDefs |-> NewInstance(SpawnDefs[i], InstanceIds[i])]

(* objectInstances.find((i) => i.instanceId === id): its index, 0 if none *)
FindInstance(insts, iid) ==
    IF \E i \in DOMAIN insts : insts[i].instanceId = iid
    THEN Min({i \in DOMAIN insts : insts[i].instanceId = iid})
    ELSE 0

(* mutant: only the instances lying in the world are written *)
SaveObjectsStateOfTheWorld(insts) ==
    SelectSeq(insts, LAMBDA inst : inst.pickedUpBy = Null)

(* JSON.stringify(objectInstances): every member of an instance is a       *)
(* string, a number or null, and is written as it is                       *)
SaveObjectsState(insts) == insts

-----------------------------------------------------------------------------
(* Passwords and player records *)

HashOf(password, salt) == [pw |-> password, salt |-> salt]
NoHash == [pw |-> "", salt |-> ""]

VerifyPassword(password, salt, hash) == hash = HashOf(password, salt)

(* savePlayerData: the fields written to players/<name>.json *)
SafeData(data) ==
    [name |-> data.name, x |-> data.x, y |-> data.y, roomId |-> data.roomId,
     color |-> data.color, inventory |-> data.inventory,
     privilege |-> data.privilege, salt |-> data.salt, hash |-> data.hash]

SavePlayerData(files, data) == MapPut(files, data.name, SafeData(data))

(* The player files present at boot: one administrator, created earlier *)
InitPlayerFiles ==
    [n \in {"Ava"} |->
        [name |-> "Ava", x |-> 400, y |-> 300, roomId |-> 0, color |-> "red",
         inventory |-> {}, privilege |-> 10, salt |-> "s0",
         hash |-> HashOf("pwA", "s0")]]

-----------------------------------------------------------------------------
(* Sending *)

IsOpen(cl, id) == id \in DOMAIN cl /\ cl[id] = "OPEN"

Msg(to, m) == [to |-> to, msg |-> m]

(* mutant: every open connection of the zone is sent to, whatever its room *)
BroadcastToZone(cl, pos, zone, roomId, m) ==
    LET ids == AscendingIds({id \in DOMAIN cl :
                   /\ id \in DOMAIN pos
                   /\ pos[id].zone = zone
                   /\ cl[id] = "OPEN"})
    IN  [k \in DOMAIN ids |-> Msg(ids[k], m)]

(* for (const [otherId, client] of clients): Map order is insertion order, *)
(* which is ascending id                                                    *)
BroadcastToRoom(cl, pos, zone, roomId, m) ==
    LET ids == AscendingIds({id \in DOMAIN cl :
                   /\ id \in DOMAIN pos
                   /\ pos[id].zone = zone
                   /\ pos[id].roomId = roomId
                   /\ cl[id] = "OPEN"})
    IN  [k \in DOMAIN ids |-> Msg(ids[k], m)]

BroadcastToAll(cl, m) ==
    LET ids == AscendingIds({id \in DOMAIN cl : cl[id] = "OPEN"})
    IN  [k \in DOMAIN ids |-> Msg(ids[k], m)]

(* mutant: the sender is not left out *)
BroadcastToOthersAndSelf(cl, self, m) ==
    LET ids == AscendingIds({id \in DOMAIN cl : cl[id] = "OPEN"})
    IN  [k \in DOMAIN ids |-> Msg(ids[k], m)]

BroadcastToOthers(cl, self, m) ==
    LET ids == AscendingIds({id \in DOMAIN cl : id # self /\ cl[id] = "OPEN"})
    IN  [k \in DOMAIN ids |-> Msg(ids[k], m)]

ErrorMsg(text) == [type |-> "error", message |-> text]

(* getFormattedTimeMessage: the fields derived from the clock *)
Season(day) ==
    LET dayOfYear == day % DaysPerYear
    IN  IF dayOfYear >= 90 /\ dayOfYear < 180 THEN "spring"
        ELSE IF dayOfYear >= 180 /\ dayOfYear < 270 THEN "summer"
        ELSE IF dayOfYear >= 270 THEN "fall"
        ELSE "winter"

TimeDisplay(hour) ==
    [icon |-> IF hour \in 5..17 THEN "sun"
              ELSE IF hour \in (0..4) \cup (18..23) THEN "moon" ELSE "",
     h12 |-> IF hour > 12 THEN hour - 12 ELSE hour,
     suffix |-> IF hour >= 12 THEN "PM" ELSE "AM"]

GetFormattedTimeMessage(gt) ==
    [type |-> "time-update", hour |-> TimeDisplay(gt.hour), day |-> gt.day,
     year |-> (gt.day \div DaysPerYear) + 1, season |-> Season(gt.day)]

-----------------------------------------------------------------------------
(* NPC instances generated at boot from the npcs[] of the room files *)

(* template.roam || null: the roam block of a template that has none *)
NoRoam ==
    [type |-> Null, frequency |-> 0, minDuration |-> 0, maxDuration |-> 0,
     rate |-> 0]

InitNpcInstances ==
    << [instanceId |-> "N1", typeId |-> "gregory", name |-> "Gregory",
        zone |-> "0", roomId |-> 0, x |-> 0, y |-> 0,
        roam |-> NoRoam, behavior |-> Null] >>

(* JSON.stringify(npcInstances): a behavior module, whose members are      *)
(* functions, is written as the empty object                               *)
StringifyNpc(npc) ==
    [npc EXCEPT !.behavior = IF @ = Null THEN Null ELSE "{}"]

SaveNpcState(npcs) == [k \in DOMAIN npcs |-> StringifyNpc(npcs[k])]

NpcsInRoom(npcs, zone, roomId) ==
    SelectSeq(npcs, LAMBDA n : n.zone = zone /\ n.roomId = roomId)

-----------------------------------------------------------------------------
(* First message of a connection: { name, password, create }.  salt is the  *)
(* value crypto.randomBytes yields inside hashPassword.                     *)

(* mutant: the duplicate-character test made before the password-data test *)
AuthRefusalCreateFirst(files, name, password, create) ==
    IF name \in DOMAIN files
    THEN IF create THEN "Character already exists."
         ELSE IF files[name].salt = "" \/ files[name].hash = NoHash
              THEN "Missing password data."
         ELSE IF ~VerifyPassword(password, files[name].salt, files[name].hash)
              THEN "Incorrect password."
         ELSE ""
    ELSE IF ~create THEN "Character not found." ELSE ""

AuthRefusal(files, name, password, create) ==
    IF name \in DOMAIN files
    THEN IF files[name].salt = "" \/ files[name].hash = NoHash
              THEN "Missing password data."
         ELSE IF create THEN "Character already exists."
         ELSE IF ~VerifyPassword(password, files[name].salt, files[name].hash)
              THEN "Incorrect password."
         ELSE ""
    ELSE IF ~create THEN "Character not found." ELSE ""

InitialPos(files, id, name, password, salt) ==
    IF name \in DOMAIN files
    THEN [name |-> name, x |-> files[name].x, y |-> files[name].y,
          roomId |-> files[name].roomId, color |-> files[name].color,
          privilege |-> files[name].privilege,
          inventory |-> files[name].inventory,
          salt |-> files[name].salt, hash |-> files[name].hash]
    ELSE [name |-> name, x |-> 400, y |-> 300, roomId |-> 0,
          color |-> Colors[(id % NumColors) + 1], privilege |-> 0,
          inventory |-> {}, salt |-> salt, hash |-> HashOf(password, salt)]

RegistryEntry(initialPos) ==
    [name |-> initialPos.name, x |-> initialPos.x, y |-> initialPos.y,
     roomId |-> initialPos.roomId, privilege |-> initialPos.privilege,
     color |-> initialPos.color, inventory |-> initialPos.inventory,
     salt |-> initialPos.salt, hash |-> initialPos.hash,
     zone |-> DefaultZone]

(* what the handler sends once the connection is registered: init, the    *)
(* time, the objects and NPCs of the room, the inventory, then the join to *)
(* the others                                                               *)
AuthSends(id, name, initialPos, cl, pos) ==
    << Msg(id, [type |-> "init", id |-> id, players |-> pos,
                x |-> initialPos.x, y |-> initialPos.y,
                roomId |-> 0, privilege |-> 10]),
       Msg(id, GetFormattedTimeMessage(gameTime)),
       Msg(id, [type |-> "init-objects", objects |->
           SelectSeq(objectInstances, LAMBDA i :
               /\ i.zone = DefaultZone
               /\ i.roomId = initialPos.roomId
               /\ i.pickedUpBy = Null)]),
       Msg(id, [type |-> "init-inventory", inventory |->
           SelectSeq(objectInstances, LAMBDA i : i.pickedUpBy = name)]),
       Msg(id, [type |-> "init-npcs", npcs |->
           NpcsInRoom(npcInstances, DefaultZone, initialPos.roomId)]) >>
    \o BroadcastToOthers(cl, id, [type |-> "join", id |-> id,
                                  pos |-> initialPos])

AuthMessage(name, password, create, salt) ==
    /\ Step
    /\ LET id == clientId
           refusal == AuthRefusal(playerFiles, name, password, create)
           initialPos == InitialPos(playerFiles, id, name, password, salt)
       IN  /\ clientId' = id + 1
           /\ nameMap' = MapPut(nameMap, id, name)
           /\ IF refusal # ""
              THEN /\ clients' = MapPut(clients, id, "CLOSED")
                   /\ lastSocket' = "CLOSED"
                   /\ sent' = << Msg(id, ErrorMsg(refusal)) >>
                   /\ UNCHANGED << positions, playerFiles, everAuth, issued >>
              ELSE /\ clients' = MapPut(clients, id, "OPEN")
                   /\ lastSocket' = "OPEN"
                   /\ issued' = Append(issued, id)
                   /\ playerFiles' =
                         IF name \in DOMAIN playerFiles THEN playerFiles
                         ELSE SavePlayerData(playerFiles, initialPos)
                   /\ positions' = MapPut(positions, id, RegistryEntry(initialPos))
                   /\ everAuth' = everAuth \cup {name}
                   /\ sent' = AuthSends(id, name, initialPos, clients',
                                        positions')
    /\ UNCHANGED << npcTimers, timeouts, npcStateFile, proc, found, fatalLog,
                    gameTime, stateFile, objectInstances, objectsStateFile,
                    roomFiles, lastPick, npcInstances >>

(* The whole first-message handler: a message that does not parse or lacks *)
(* name or password closes the socket before an id is taken; a throw of    *)
(* readFileSync/JSON.parse (readOk false) or of savePlayerData (writeOk    *)
(* false) lands in the catch, after which the handler goes on to register  *)
(* the connection with whatever initialPos holds by then.                  *)
Malformed(m) == ~m.parses \/ m.name = "" \/ m.password = ""

(* initialPos when the read threw: the defaults, salt and hash undefined *)
DefaultPos(id, name) ==
    [name |-> name, x |-> 400, y |-> 300, roomId |-> 0,
     color |-> Colors[(id % NumColors) + 1], privilege |-> 0,
     inventory |-> {}, salt |-> "", hash |-> NoHash]

Thrown(files, m, readOk, writeOk) ==
    IF m.name \in DOMAIN files THEN ~readOk ELSE m.create /\ ~writeOk

FirstMessage(m, salt, readOk, writeOk) ==
    IF Malformed(m)
    THEN /\ Step
         /\ lastSocket' = "CLOSED"
         /\ sent' = << >>
         /\ UNCHANGED << gameTime, stateFile, clientId, clients, positions,
                         nameMap, objectInstances, objectsStateFile,
                         playerFiles, npcInstances, roomFiles, everAuth,
                         lastPick, issued, npcTimers, timeouts,
                         npcStateFile, proc, found, fatalLog >>
    ELSE IF Thrown(playerFiles, m, readOk, writeOk)
    THEN /\ Step
         /\ LET id == clientId
                initialPos ==
                    IF m.name \in DOMAIN playerFiles
                    THEN DefaultPos(id, m.name)
                    ELSE InitialPos(playerFiles, id, m.name, m.password, salt)
            IN  /\ clientId' = id + 1
                /\ nameMap' = MapPut(nameMap, id, m.name)
                /\ clients' = MapPut(clients, id, "OPEN")
                /\ lastSocket' = "OPEN"
                /\ issued' = Append(issued, id)
                /\ positions' = MapPut(positions, id, RegistryEntry(initialPos))
                /\ everAuth' = everAuth \cup {m.name}
                /\ sent' = AuthSends(id, m.name, initialPos, clients',
                                     positions')
         /\ UNCHANGED << gameTime, stateFile, objectInstances,
                         objectsStateFile, playerFiles, npcInstances,
                         roomFiles, lastPick, npcTimers, timeouts,
                         npcStateFile, proc, found, fatalLog >>
    ELSE AuthMessage(m.name, m.password, m.create, salt)

(* An authenticated connection is one whose message and close handlers are *)
(* registered: it has a registry entry until its close handler runs        *)
Authenticated(id) == id \in DOMAIN positions

-----------------------------------------------------------------------------
(* update *)

Update(id, m) ==
    /\ Authenticated(id)
    /\ Step
    /\ positions' = [positions EXCEPT ![id].x = m.x, ![id].y = m.y,
                                      ![id].roomId = m.roomId]
    /\ sent' = BroadcastToOthers(clients, id,
                  [type |-> "update", id |-> id, x |-> m.x, y |-> m.y,
                   roomId |-> m.roomId, name |-> positions[id].name,
                   privilege |-> positions[id].privilege])
    /\ UNCHANGED << lastSocket, issued, npcTimers, timeouts, npcStateFile, proc, found, fatalLog,
                    gameTime, stateFile, clientId, clients, nameMap,
                    objectInstances, objectsStateFile, playerFiles, roomFiles,
                    everAuth, lastPick, npcInstances >>

-----------------------------------------------------------------------------
(* pickup *)

NotePick(log, iid, what) ==
    IF iid \in DOMAIN log THEN [log EXCEPT ![iid] = what] ELSE log

(* mutant: the guard forgets that the instance must be unowned *)
PickupAcceptsOwned(inst, m) ==
    /\ inst.zone = m.zone
    /\ inst.roomId = m.roomId

PickupAccepts(inst, m) ==
    /\ inst.pickedUpBy = Null
    /\ inst.zone = m.zone
    /\ inst.roomId = m.roomId

(* mutant: the ownership marker is not the player's name *)
PickedUpByInstanceId(inst, name, tick) ==
    [inst EXCEPT !.pickedUpBy = inst.instanceId, !.removedAt = tick]

PickedUp(inst, name, tick) ==
    [inst EXCEPT !.pickedUpBy = name, !.removedAt = tick]

Pickup(id, m) ==
    /\ Authenticated(id)
    /\ Step
    /\ LET k == FindInstance(objectInstances, m.instanceId)
       IN  IF k # 0 /\ PickupAccepts(objectInstances[k], m)
           THEN LET inst == PickedUp(objectInstances[k], nameMap[id],
                                     gameTime.tick)
                IN  /\ objectInstances' = [objectInstances EXCEPT ![k] = inst]
                    /\ objectsStateFile' = SaveObjectsState(objectInstances')
                    /\ sent' = BroadcastToRoom(clients, positions, m.zone,
                                  inst.roomId,
                                  [type |-> "object-picked", instance |-> inst,
                                   playerId |-> id])
                    /\ lastPick' = NotePick(lastPick, m.instanceId, "took")
           ELSE /\ sent' = << >>
                /\ lastPick' = NotePick(lastPick, m.instanceId, "noop")
                /\ UNCHANGED << objectInstances, objectsStateFile >>
    /\ UNCHANGED << lastSocket, issued, npcTimers, timeouts, npcStateFile, proc, found, fatalLog,
                    gameTime, stateFile, clientId, clients, positions, nameMap,
                    playerFiles, roomFiles, everAuth, npcInstances >>

-----------------------------------------------------------------------------
(* drop *)

DropAccepts(inst, name) == inst.pickedUpBy = name

(* mutant: the drop keeps the old coordinates *)
DroppedInPlace(inst, m) ==
    [inst EXCEPT !.pickedUpBy = Null, !.removedAt = NullNum,
                 !.zone = m.zone, !.roomId = m.roomId]

(* mutant: the drop leaves the removal tick in place *)
DroppedStillRemoved(inst, m) ==
    [inst EXCEPT !.pickedUpBy = Null,
                 !.x = m.x, !.y = m.y, !.zone = m.zone, !.roomId = m.roomId]

Dropped(inst, m) ==
    [inst EXCEPT !.pickedUpBy = Null, !.removedAt = NullNum,
                 !.x = m.x, !.y = m.y, !.zone = m.zone, !.roomId = m.roomId]

(* objectInstances.filter((i) => i.pickedUpBy === name), by instance id *)
InventoryOf(insts, name) ==
    {insts[i].instanceId : i \in {j \in DOMAIN insts : insts[j].pickedUpBy = name}}

Drop(id, m) ==
    /\ Authenticated(id)
    /\ Step
    /\ LET k == FindInstance(objectInstances, m.instanceId)
           name == nameMap[id]
       IN  IF k # 0 /\ DropAccepts(objectInstances[k], name)
           THEN LET inst == Dropped(objectInstances[k], m)
                IN  /\ objectInstances' = [objectInstances EXCEPT ![k] = inst]
                    /\ objectsStateFile' = SaveObjectsState(objectInstances')
                    /\ sent' = BroadcastToRoom(clients, positions, m.zone,
                                  inst.roomId,
                                  [type |-> "object-dropped", instance |-> inst])
                    /\ positions' = [positions EXCEPT ![id].inventory =
                                        InventoryOf(objectInstances', name)]
                    /\ playerFiles' = SavePlayerData(playerFiles, positions'[id])
                    /\ lastPick' = NotePick(lastPick, m.instanceId, "none")
           ELSE /\ sent' = << >>
                /\ UNCHANGED << objectInstances, objectsStateFile, positions,
                                playerFiles, lastPick >>
    /\ UNCHANGED << lastSocket, issued, npcTimers, timeouts, npcStateFile, proc, found, fatalLog,
                    gameTime, stateFile, clientId, clients, nameMap, roomFiles,
                    everAuth, npcInstances >>

-----------------------------------------------------------------------------
(* close of an authenticated connection *)

Close(id) ==
    /\ Authenticated(id)
    /\ Step
    /\ playerFiles' = SavePlayerData(playerFiles, positions[id])
    /\ clients' = MapRemove(clients, id)
    /\ positions' = MapRemove(positions, id)
    /\ nameMap' = MapRemove(nameMap, id)
    /\ sent' = BroadcastToAll(clients', [type |-> "leave", id |-> id])
    /\ UNCHANGED << lastSocket, issued, npcTimers, timeouts, npcStateFile, proc, found, fatalLog,
                    gameTime, stateFile, clientId, objectInstances,
                    objectsStateFile, roomFiles, everAuth, lastPick,
                    npcInstances >>

-----------------------------------------------------------------------------
(* JavaScript values whose type the handlers look at.  A string is the      *)
(* sequence of its characters.  Absent is a key that is not there (the only *)
(* way a file holds "undefined"); Undefined is a key holding undefined.     *)

Absent == [type |-> "absent"]
Undefined == [type |-> "undefined"]
JsNull == [type |-> "null"]
Str(cs) == [type |-> "string", text |-> cs]
Num(n) == [type |-> "number", n |-> n, half |-> FALSE]
NumAndHalf(n) == [type |-> "number", n |-> n, half |-> TRUE]
Obj(entries) == [type |-> "object", entries |-> entries]

(* obj.key of a parsed file or message *)
Get(v) == IF v = Absent THEN Undefined ELSE v

JsTruthy(v) ==
    CASE v.type = "string" -> v.text # << >>
      [] v.type = "number" -> v.n # 0 \/ v.half
      [] v.type = "object" -> TRUE
      [] OTHER -> FALSE

IsInteger(v) == v.type = "number" /\ ~v.half

Letters ==
    {"a","b","c","d","e","f","g","h","i","j","k","l","m","n","o","p","q","r",
     "s","t","u","v","w","x","y","z","A","B","C","D","E","F","G","H","I","J",
     "K","L","M","N","O","P","Q","R","S","T","U","V","W","X","Y","Z"}
Digits == << "0", "1", "2", "3", "4", "5", "6", "7", "8", "9" >>
DigitChars == {Digits[i] : i \in DOMAIN Digits}
DigitValue(c) == (CHOOSE i \in DOMAIN Digits : Digits[i] = c) - 1

(* /^[a-zA-Z0-9_-]+$/.test(cs) *)
TerrainPattern(cs) ==
    /\ Len(cs) >= 1
    /\ \A i \in DOMAIN cs : cs[i] \in Letters \cup DigitChars \cup {"_", "-"}

(* parseInt(v, 10): [nan, n] *)
RECURSIVE LeadingDigits(_, _)
LeadingDigits(cs, acc) ==
    IF cs = << >> \/ Head(cs) \notin DigitChars THEN acc
    ELSE LeadingDigits(Tail(cs), 10 * acc + DigitValue(Head(cs)))

ParseInt(v) ==
    CASE v.type = "number" -> [nan |-> FALSE, n |-> v.n]
      [] v.type = "string" ->
            IF v.text # << >> /\ Head(v.text) \in DigitChars
            THEN [nan |-> FALSE, n |-> LeadingDigits(v.text, 0)]
            ELSE IF Len(v.text) >= 2 /\ Head(v.text) = "-"
                    /\ v.text[2] \in DigitChars
            THEN [nan |-> FALSE, n |-> 0 - LeadingDigits(Tail(v.text), 0)]
            ELSE [nan |-> TRUE, n |-> 0]
      [] OTHER -> [nan |-> TRUE, n |-> 0]

-----------------------------------------------------------------------------
(* A message whose handling throws.  raw is the text received: it may not  *)
(* parse, it may be the JSON null, or it is an object with a type and, for *)
(* the handlers that call msg.zone.toString(), a zone that may be missing. *)

ZoneReaders == {"pickup", "drop", "request-objects-and-npcs"}

(* mutant: only a parse failure counts *)
ThrowsOnParseOnly(raw) == ~raw.parses

Throws(raw) ==
    \/ ~raw.parses
    \/ raw.json = "null"
    \/ /\ raw.type \in ZoneReaders
       /\ Get(raw.zone) \in {Undefined, JsNull}

(* the catch of the message handler *)
ThrowingMessage(id, raw) ==
    /\ Authenticated(id)
    /\ Throws(raw)
    /\ Step
    /\ sent' = IF IsOpen(clients, id)
               THEN << Msg(id, ErrorMsg("Invalid message format")) >>
               ELSE << >>
    /\ UNCHANGED << gameTime, stateFile, clientId, clients, positions,
                    nameMap, objectInstances, objectsStateFile, playerFiles,
                    npcInstances, roomFiles, everAuth, lastPick, lastSocket,
                    issued, npcTimers, timeouts,
                         npcStateFile, proc, found, fatalLog >>

-----------------------------------------------------------------------------
(* Room files *)

Grass == << "g", "r", "a", "s", "s" >>
Water == << "w", "a", "t", "e", "r" >>
Sand == << "s", "a", "n", "d" >>
Void == << "v", "o", "i", "d" >>

ExitTo(roomId, x, y) ==
    [type |-> "object", roomId |-> Num(roomId), x |-> Num(x), y |-> Num(y)]

(* { terrain: 'void', tileExits: {} } *)
VoidTile ==
    [terrain |-> Str(Void), layers |-> Absent, properties |-> Absent,
     tileExits |-> Obj(<< >>)]

(* the tile at 0-based (x, y) of the room file shipped for room 0 *)
ShippedTile(x, y) ==
    [terrain |-> Str(IF (x + y) % 2 = 0 THEN Grass ELSE Water),
     layers |-> [type |-> "array", items |-> << x, y >>],
     properties |-> Absent,
     tileExits |-> IF x = 0 /\ y = 0
                   THEN Obj(<< [k |-> "right", v |-> ExitTo(1, 0, 0)] >>)
                   ELSE Absent]

InitRoomFiles ==
    [rid \in RoomIds |->
        IF rid = 0
        THEN [id |-> 0, width |-> 2, height |-> 2,
              tiles |-> [y \in 1..2 |-> [x \in 1..2 |-> ShippedTile(x - 1, y - 1)]],
              exits |-> << [from |-> [x |-> 1, y |-> 1],
                            to |-> [roomId |-> 1, x |-> 0, y |-> 0]] >>,
              spawns |-> << SpawnDefs[1] >>]
        ELSE [id |-> 1, width |-> 1, height |-> 1,
              tiles |-> << << ShippedTile(1, 0) >> >>,
              exits |-> << >>,
              spawns |-> << SpawnDefs[2] >>]]

(* worldData.zones: one zone, at index 0 *)
ZoneDefined(zoneId) ==
    \/ zoneId = Num(0)
    \/ zoneId = Str(<< "0" >>)

(* JSON.stringify drops the keys whose value is undefined *)
StringifyTile(tile) ==
    [f \in DOMAIN tile |-> IF tile[f] = Undefined THEN Absent ELSE tile[f]]

StringifyRoom(room) ==
    [room EXCEPT !.tiles =
        [y \in DOMAIN room.tiles |->
            [x \in DOMAIN room.tiles[y] |-> StringifyTile(room.tiles[y][x])]]]

-----------------------------------------------------------------------------
(* Input validation *)

ValidateRoomId(roomId) ==
    LET parsed == ParseInt(roomId)
    IN  IF parsed.nan \/ parsed.n < 0
        THEN [valid |-> FALSE, error |-> "Invalid room ID", sanitized |-> 0]
        ELSE [valid |-> TRUE, error |-> "", sanitized |-> parsed.n]

InBounds(tiles, x, y) ==
    /\ y + 1 \in DOMAIN tiles
    /\ x + 1 \in DOMAIN tiles[y + 1]

ValidateEditRequest(m, roomJson) ==
    IF ~IsInteger(m.x) \/ ~IsInteger(m.y)
        THEN "Coordinates must be integers"
    ELSE IF m.x.n < 0 \/ m.y.n < 0
        THEN "Coordinates must be non-negative"
    ELSE IF ~InBounds(roomJson.tiles, m.x.n, m.y.n)
        THEN "Coordinates out of room bounds"
    ELSE IF JsTruthy(m.terrain)
            /\ (m.terrain.type # "string" \/ ~TerrainPattern(m.terrain.text))
        THEN "Invalid terrain value"
    ELSE ""

ValidateResizeRequest(m) ==
    IF ~IsInteger(m.width) \/ ~IsInteger(m.height)
        THEN "Dimensions must be integers"
    ELSE IF m.width.n < 1 \/ m.height.n < 1
        THEN "Dimensions must be at least 1x1"
    ELSE IF m.width.n > MaxRoomSize \/ m.height.n > MaxRoomSize
        THEN "Dimensions too large (max 100x100)"
    ELSE ""

ValidDirections == {"up", "down", "left", "right"}

ValidateExit(e) ==
    IF e.k \notin ValidDirections THEN "Invalid exit direction: " \o e.k
    ELSE IF ~JsTruthy(e.v) \/ e.v.type # "object" THEN "Exit must be an object"
    ELSE IF ~IsInteger(e.v.roomId) \/ ~IsInteger(e.v.x) \/ ~IsInteger(e.v.y)
        THEN "Exit coordinates must be integers"
    ELSE IF e.v.roomId.n < 0 \/ e.v.x.n < 0 \/ e.v.y.n < 0
        THEN "Exit coordinates must be non-negative"
    ELSE ""

RECURSIVE FirstExitError(_)
FirstExitError(entries) ==
    IF entries = << >> THEN ""
    ELSE IF ValidateExit(Head(entries)) # "" THEN ValidateExit(Head(entries))
    ELSE FirstExitError(Tail(entries))

ValidateTileExits(tileExits) ==
    IF tileExits = JsNull \/ tileExits = Undefined THEN ""
    ELSE IF tileExits.type # "object" THEN "Tile exits must be an object"
    ELSE FirstExitError(tileExits.entries)

(* the gate without the privilege comparison *)
PrivilegedAnyPlayer(pos, id) ==
    id \in DOMAIN pos

(* !(!player || player.privilege < 10) *)
Privileged(pos, id) ==
    id \in DOMAIN pos /\ pos[id].privilege >= PrivilegeRequired

-----------------------------------------------------------------------------
(* The privileged room editing handlers.  A message is what JSON.parse gave: *)
(* a key it lacks is Absent and reads as undefined.  writeOk is the outcome *)
(* of safeFileWrite.                                                        *)

ZoneOf(m) == IF Get(m.zoneId) # Undefined THEN m.zoneId ELSE Num(0)

(* the checks every one of the three handlers makes before it looks at the  *)
(* room: "" when they pass                                                   *)
EditTileRefusal(pos, files, id, m) ==
    IF ~Privileged(pos, id) THEN "Insufficient privileges"
    ELSE IF ~ValidateRoomId(Get(m.roomId)).valid
        THEN ValidateRoomId(Get(m.roomId)).error
    ELSE IF ~ZoneDefined(ZoneOf(m)) THEN "Unknown zone"
    ELSE IF ValidateRoomId(Get(m.roomId)).sanitized \notin DOMAIN files
        THEN "Failed to load room data"
    ELSE ValidateEditRequest([x |-> Get(m.x), y |-> Get(m.y),
                              terrain |-> Get(m.terrain)],
             files[ValidateRoomId(Get(m.roomId)).sanitized])

(* an edit that writes a fresh tile instead of one field *)
SetTerrainReplacingTile(roomJson, x, y, terrain) ==
    [roomJson EXCEPT !.tiles[y + 1][x + 1] =
        [terrain |-> terrain, layers |-> Absent, properties |-> Absent,
         tileExits |-> Absent]]

(* roomJson.tiles[msg.y][msg.x].terrain = msg.terrain *)
SetTerrain(roomJson, x, y, terrain) ==
    [roomJson EXCEPT !.tiles[y + 1][x + 1].terrain = terrain]

(* mutant: the result of safeFileWrite is not looked at *)
EditTileWriteUnchecked(id, m, writeOk) ==
    /\ EditStep
    /\ LET refusal == EditTileRefusal(positions, roomFiles, id, m)
           roomId == ValidateRoomId(Get(m.roomId)).sanitized
       IN  IF refusal # ""
           THEN /\ sent' = << Msg(id, ErrorMsg(refusal)) >>
                /\ UNCHANGED roomFiles
           ELSE /\ roomFiles' = IF writeOk
                       THEN [roomFiles EXCEPT ![roomId] =
                               StringifyRoom(SetTerrain(roomFiles[roomId], m.x.n,
                                                        m.y.n, Get(m.terrain)))]
                       ELSE roomFiles
                /\ sent' = BroadcastToAll(clients,
                       [type |-> "room-updated", roomId |-> roomId, patch |-> m])
    /\ UNCHANGED << lastSocket, issued, npcTimers, timeouts, npcStateFile, proc, found, fatalLog,
                    gameTime, stateFile, clientId, clients, positions, nameMap,
                    objectInstances, objectsStateFile, playerFiles,
                    npcInstances, everAuth, lastPick >>

EditTile(id, m, writeOk) ==
    /\ EditStep
    /\ LET refusal == EditTileRefusal(positions, roomFiles, id, m)
           roomId == ValidateRoomId(Get(m.roomId)).sanitized
       IN  IF refusal # ""
           THEN /\ sent' = << Msg(id, ErrorMsg(refusal)) >>
                /\ UNCHANGED roomFiles
           ELSE IF ~writeOk
           THEN /\ sent' = << Msg(id, ErrorMsg("Failed to save room changes")) >>
                /\ UNCHANGED roomFiles
           ELSE /\ roomFiles' = [roomFiles EXCEPT ![roomId] =
                       StringifyRoom(SetTerrain(roomFiles[roomId], m.x.n, m.y.n,
                                                Get(m.terrain)))]
                /\ sent' = BroadcastToAll(clients,
                       [type |-> "room-updated", roomId |-> roomId, patch |-> m])
    /\ UNCHANGED << lastSocket, issued, npcTimers, timeouts, npcStateFile, proc, found, fatalLog,
                    gameTime, stateFile, clientId, clients, positions, nameMap,
                    objectInstances, objectsStateFile, playerFiles,
                    npcInstances, everAuth, lastPick >>

EditTileExitsRefusal(pos, files, id, m) ==
    IF ~Privileged(pos, id) THEN "Insufficient privileges"
    ELSE IF ~ValidateRoomId(Get(m.roomId)).valid
        THEN ValidateRoomId(Get(m.roomId)).error
    ELSE IF ValidateTileExits(Get(m.tileExits)) # ""
        THEN ValidateTileExits(Get(m.tileExits))
    ELSE IF ~ZoneDefined(ZoneOf(m)) THEN "Unknown zone"
    ELSE IF ValidateRoomId(Get(m.roomId)).sanitized \notin DOMAIN files
        THEN "Failed to load room data"
    ELSE ValidateEditRequest([x |-> Get(m.x), y |-> Get(m.y),
                              terrain |-> Get(m.terrain)],
             files[ValidateRoomId(Get(m.roomId)).sanitized])

(* delete tile.tileExits when the message says null, else assign *)
SetTileExits(roomJson, x, y, tileExits) ==
    [roomJson EXCEPT !.tiles[y + 1][x + 1].tileExits =
        IF tileExits = JsNull THEN Absent ELSE tileExits]

EditTileExits(id, m, writeOk) ==
    /\ EditStep
    /\ LET refusal == EditTileExitsRefusal(positions, roomFiles, id, m)
           roomId == ValidateRoomId(Get(m.roomId)).sanitized
       IN  IF refusal # ""
           THEN /\ sent' = << Msg(id, ErrorMsg(refusal)) >>
                /\ UNCHANGED roomFiles
           ELSE IF ~writeOk
           THEN /\ sent' = << Msg(id, ErrorMsg("Failed to save tile exits")) >>
                /\ UNCHANGED roomFiles
           ELSE /\ roomFiles' = [roomFiles EXCEPT ![roomId] =
                       StringifyRoom(SetTileExits(roomFiles[roomId], m.x.n,
                                                  m.y.n, Get(m.tileExits)))]
                /\ sent' = BroadcastToAll(clients,
                       [type |-> "room-updated", roomId |-> roomId, patch |-> m])
    /\ UNCHANGED << lastSocket, issued, npcTimers, timeouts, npcStateFile, proc, found, fatalLog,
                    gameTime, stateFile, clientId, clients, positions, nameMap,
                    objectInstances, objectsStateFile, playerFiles,
                    npcInstances, everAuth, lastPick >>

ResizeRoomRefusal(pos, files, id, m) ==
    IF ~Privileged(pos, id) THEN "Insufficient privileges"
    ELSE IF ~ValidateRoomId(Get(m.roomId)).valid
        THEN ValidateRoomId(Get(m.roomId)).error
    ELSE IF ValidateResizeRequest([width |-> Get(m.width),
                                   height |-> Get(m.height)]) # ""
        THEN ValidateResizeRequest([width |-> Get(m.width),
                                    height |-> Get(m.height)])
    ELSE IF ~ZoneDefined(ZoneOf(m)) THEN "Unknown zone"
    ELSE IF ValidateRoomId(Get(m.roomId)).sanitized \notin DOMAIN files
        THEN "Failed to load room data"
    ELSE ""

(* array.length = n: cut, or fill up with holes, which JSON writes as null *)
SetLength(array, n) ==
    [i \in 1..n |-> IF i <= Len(array) THEN array[i] ELSE JsNull]

(* n times push({ terrain: 'void', tileExits: {} }) *)
PushVoid(row, n) == row \o [i \in 1..n |-> VoidTile]

(* a row resize that never cuts *)
ResizeRowGrowOnly(row, oldW, newW) ==
    IF newW > oldW THEN PushVoid(row, newW - oldW) ELSE row

ResizeRow(row, oldW, newW) ==
    IF newW > oldW THEN PushVoid(row, newW - oldW)
    ELSE IF newW < oldW THEN SetLength(row, newW)
    ELSE row

(* a row adjustment that drops the first rows instead of the last *)
AdjustRowsFromTheTop(tiles, oldH, newH, newW) ==
    IF newH > oldH
    THEN tiles \o [i \in 1..(newH - oldH) |-> PushVoid(<< >>, newW)]
    ELSE IF newH < oldH
    THEN [i \in 1..newH |-> tiles[i + (Len(tiles) - newH)]]
    ELSE tiles

AdjustRows(tiles, oldH, newH, newW) ==
    IF newH > oldH
    THEN tiles \o [i \in 1..(newH - oldH) |-> PushVoid(<< >>, newW)]
    ELSE IF newH < oldH THEN SetLength(tiles, newH)
    ELSE tiles

Resized(roomJson, newW, newH) ==
    [roomJson EXCEPT
        !.tiles = AdjustRows(
            [y \in DOMAIN roomJson.tiles |->
                ResizeRow(roomJson.tiles[y], roomJson.width, newW)],
            roomJson.height, newH, newW),
        !.width = newW,
        !.height = newH]

ResizeRoom(id, m, writeOk) ==
    /\ EditStep
    /\ LET refusal == ResizeRoomRefusal(positions, roomFiles, id, m)
           roomId == ValidateRoomId(Get(m.roomId)).sanitized
       IN  IF refusal # ""
           THEN /\ sent' = << Msg(id, ErrorMsg(refusal)) >>
                /\ UNCHANGED roomFiles
           ELSE IF ~writeOk
           THEN /\ sent' = << Msg(id, ErrorMsg("Failed to save room resize")) >>
                /\ UNCHANGED roomFiles
           ELSE /\ roomFiles' = [roomFiles EXCEPT ![roomId] =
                       StringifyRoom(Resized(roomFiles[roomId], m.width.n,
                                             m.height.n))]
                /\ sent' = BroadcastToAll(clients,
                       [type |-> "room-resized", roomId |-> roomId,
                        width |-> m.width.n, height |-> m.height.n])
    /\ UNCHANGED << lastSocket, issued, npcTimers, timeouts, npcStateFile, proc, found, fatalLog,
                    gameTime, stateFile, clientId, clients, positions, nameMap,
                    objectInstances, objectsStateFile, playerFiles,
                    npcInstances, everAuth, lastPick >>

-----------------------------------------------------------------------------
(* The 1 Hz tick: clock, then the object respawn cycle *)

(* mutant: the hour is not reset when the day changes *)
AdvanceClockWithoutReset(gt) ==
    LET t == gt.tick + 1
    IN  IF t % TicksPerHour = 0
        THEN IF (gt.hour + 1) % HoursPerDay = 0
             THEN [tick |-> t, hour |-> gt.hour + 1, day |-> gt.day + 1]
             ELSE [tick |-> t, hour |-> gt.hour + 1, day |-> gt.day]
        ELSE [gt EXCEPT !.tick = t]

AdvanceClock(gt) ==
    LET t == gt.tick + 1
    IN  IF t % TicksPerHour = 0
        THEN IF (gt.hour + 1) % HoursPerDay = 0
             THEN [tick |-> t, hour |-> 0, day |-> gt.day + 1]
             ELSE [tick |-> t, hour |-> gt.hour + 1, day |-> gt.day]
        ELSE [gt EXCEPT !.tick = t]

Respawns(inst, tick) ==
    /\ inst.pickedUpBy # Null
    /\ Truthy(inst.respawnAfterSec)
    /\ Truthy(inst.removedAt)
    /\ tick - inst.removedAt >= inst.respawnAfterSec

Respawned(inst) == [inst EXCEPT !.pickedUpBy = Null, !.removedAt = NullNum]

(* mutant: the sweep is run on the minute only *)
SweepInstancesOnTheMinute(insts, tick) ==
    [i \in DOMAIN insts |->
        IF Respawns(insts[i], tick) /\ tick % TicksPerHour = 0
        THEN Respawned(insts[i]) ELSE insts[i]]

SweepInstances(insts, tick) ==
    [i \in DOMAIN insts |->
        IF Respawns(insts[i], tick) THEN Respawned(insts[i]) ELSE insts[i]]

SweepSent(insts, tick, cl, pos) ==
    FlattenSeq([i \in DOMAIN insts |->
        IF Respawns(insts[i], tick)
        THEN BroadcastToRoom(cl, pos, insts[i].zone, insts[i].roomId,
                 [type |-> "object-spawned", instance |-> Respawned(insts[i])])
        ELSE << >>])

(* findPath: breadth-first search over the grid.  A path is the sequence   *)
(* of its cells << x, y >>; NoPath stands for the null the search returns  *)
(* when the queue runs empty.                                               *)
NoPath == << >>

(* before any findPath call.  A grid is kept as its size and the set of   *)
(* its void cells.                                                          *)
NoSearch ==
    [width |-> 0, height |-> 0, voids |-> {}, start |-> << 0, 0 >>,
     end |-> << 0, 0 >>, path |-> NoPath]

(* mutant: neighbours are tried along y first *)
DirsYFirst == << << 0, 1 >>, << 0, 0 - 1 >>, << 1, 0 >>, << 0 - 1, 0 >> >>

Dirs == << << 1, 0 >>, << 0 - 1, 0 >>, << 0, 1 >>, << 0, 0 - 1 >> >>

(* the loop over dirs for the path taken off the queue, from direction d on *)
RECURSIVE Expand(_, _, _, _, _)
RECURSIVE ExpandOntoVoid(_, _, _, _, _)

(* mutant: void cells are walked on *)
ExpandOntoVoid(path, d, visited, queue, tiles) ==
    IF d > Len(Dirs) THEN [visited |-> visited, queue |-> queue]
    ELSE LET last == path[Len(path)]
             nx == last[1] + Dirs[d][1]
             ny == last[2] + Dirs[d][2]
             rows == Len(tiles)
             cols == Len(tiles[1])
         IN  IF nx < 0 \/ ny < 0 \/ nx >= cols \/ ny >= rows
             THEN Expand(path, d + 1, visited, queue, tiles)
             ELSE IF << nx, ny >> \in visited
             THEN Expand(path, d + 1, visited, queue, tiles)
             ELSE Expand(path, d + 1, visited \cup {<< nx, ny >>},
                         Append(queue, Append(path, << nx, ny >>)), tiles)

Expand(path, d, visited, queue, tiles) ==
    IF d > Len(Dirs) THEN [visited |-> visited, queue |-> queue]
    ELSE LET last == path[Len(path)]
             nx == last[1] + Dirs[d][1]
             ny == last[2] + Dirs[d][2]
             rows == Len(tiles)
             cols == Len(tiles[1])
         IN  IF nx < 0 \/ ny < 0 \/ nx >= cols \/ ny >= rows
             THEN Expand(path, d + 1, visited, queue, tiles)
             ELSE IF << nx, ny >> \in visited
             THEN Expand(path, d + 1, visited, queue, tiles)
             ELSE IF tiles[ny + 1][nx + 1].terrain = Str(Void)
             THEN Expand(path, d + 1, visited, queue, tiles)
             ELSE Expand(path, d + 1, visited \cup {<< nx, ny >>},
                         Append(queue, Append(path, << nx, ny >>)), tiles)

RECURSIVE Bfs(_, _, _, _)
Bfs(queue, visited, end, tiles) ==
    IF queue = << >> THEN NoPath
    ELSE LET path == Head(queue)
         IN  IF path[Len(path)] = end THEN path
             ELSE LET e == Expand(path, 1, visited, Tail(queue), tiles)
                  IN  Bfs(e.queue, e.visited, end, tiles)

FindPath(start, end, tiles) == Bfs(<< << start >> >>, {start}, end, tiles)

(* pickRandomTile: the cells Math.random chooses among, every cell of the  *)
(* room whatever its terrain                                                *)
PickRandomTile(room) ==
    {c \in (0..MaxDim) \X (0..MaxDim) :
        /\ c[2] + 1 \in DOMAIN room.tiles
        /\ c[1] + 1 \in DOMAIN room.tiles[c[2] + 1]}

(* Math.random() * 100: one value below and one above any frequency that   *)
(* lies strictly between them                                               *)
RandRolls == {0, 99}

(* a behavior module other than the shipped one: its onTick sends an      *)
(* emote to the room and then throws                                       *)
ThrowingModule == "thrower"

(* what Math.random yields for one NPC in one tick: the roll, and the cell *)
(* pickRandomTile returns                                                   *)
NoChance == [randRoll |-> 99, target |-> << 0, 0 >>, toss |-> 70]

(* Math.random() in onTick, in hundredths: below .35, between .35 and .5,  *)
(* and above .5                                                             *)
Tosses == {20, 40, 70}

RoamEligible(npc) == npc.roam # NoRoam /\ npc.roam.type = "random"

(* pickRandomTile is called only once the roll is below the frequency *)
Chances(npc, rooms) ==
    {c \in [randRoll : RandRolls, target : (0..MaxDim) \X (0..MaxDim),
            toss : Tosses] :
        /\ IF RoamEligible(npc)
           THEN IF c.randRoll < npc.roam.frequency
                THEN c.target \in PickRandomTile(rooms[npc.roomId])
                ELSE c.target = NoChance.target
           ELSE c.randRoll = NoChance.randRoll /\ c.target = NoChance.target
        /\ npc.behavior \in {Null, ThrowingModule} => c.toss = NoChance.toss}

(* mutant: a route of any length is accepted *)
RoamPathOfAnyLength(npc, chance, rooms) ==
    IF ~RoamEligible(npc) \/ ~(chance.randRoll < npc.roam.frequency)
    THEN NoPath
    ELSE LET path == FindPath(<< npc.x, npc.y >>, chance.target,
                              rooms[npc.roomId].tiles)
         IN  IF Len(path) > 1 THEN path ELSE NoPath

(* the route the roaming pass accepts for one NPC, NoPath when it starts   *)
(* none                                                                     *)
RoamPath(npc, chance, rooms) ==
    IF ~RoamEligible(npc) \/ ~(chance.randRoll < npc.roam.frequency)
    THEN NoPath
    ELSE LET path == FindPath(<< npc.x, npc.y >>, chance.target,
                              rooms[npc.roomId].tiles)
             pathLen == Len(path) - 1
         IN  IF /\ Len(path) > 1
                /\ pathLen >= npc.roam.minDuration
                /\ pathLen <= npc.roam.maxDuration
             THEN path ELSE NoPath

SegmentDuration(roam) ==
    NpcBaseTileDuration \div (IF roam.rate = 0 THEN 1 ELSE roam.rate)

StartPathMsg(npc, path) ==
    [type |-> "npc-start-path", instanceId |-> npc.instanceId, path |-> path,
     segmentDuration |-> SegmentDuration(npc.roam)]

RoamSent(npcs, chances, rooms, cl, pos) ==
    FlattenSeq([k \in DOMAIN npcs |->
        LET path == RoamPath(npcs[k], chances[k], rooms)
        IN  IF path = NoPath THEN << >>
            ELSE BroadcastToRoom(cl, pos, npcs[k].zone, npcs[k].roomId,
                                 StartPathMsg(npcs[k], path))])

(* a pending setTimeout: the NPC it was armed for and what the registry    *)
(* holds for it                                                             *)
Timeout(iid, timer) ==
    [iid |-> iid, x |-> timer.x, y |-> timer.y, delay |-> timer.delay]

(* mutant: the registry entry is dropped but clearTimeout is not called *)
ClearedTimeoutsNone(outs, timers, iids) == outs

(* clearTimeout for the registered timers of the NPCs iids: what is left   *)
(* pending in the event loop                                                *)
ClearedTimeouts(outs, timers, iids) ==
    outs \ {Timeout(iid, timers[iid]) : iid \in iids \cap DOMAIN timers}

(* clearAllNpcTimers: the registry after npcTimers.clear() *)
ClearAllNpcTimers(timers) == [iid \in {} |-> timers[iid]]

(* the timer startNpcMovementTimer arms: the cell its callback will write  *)
(* and its delay in ms.  Timers are armed in ticks only, so the delay of a  *)
(* pending timer is kept as the ms left after the last tick.                *)
MovementTimer(npc, path) ==
    [x |-> path[Len(path)][1], y |-> path[Len(path)][2],
     delay |-> (Len(path) - 1) * SegmentDuration(npc.roam)]

(* startNpcMovementTimer for every NPC that starts a route: the timer an   *)
(* NPC already had is cleared and replaced                                  *)
RoamTimers(timers, npcs, chances, rooms) ==
    LET started == {k \in DOMAIN npcs :
                       RoamPath(npcs[k], chances[k], rooms) # NoPath}
        LastOf(iid) == CHOOSE k \in started :
                          /\ npcs[k].instanceId = iid
                          /\ \A j \in started :
                                npcs[j].instanceId = iid => j <= k
    IN  [iid \in DOMAIN timers \cup {npcs[k].instanceId : k \in started} |->
            IF \E k \in started : npcs[k].instanceId = iid
            THEN MovementTimer(npcs[LastOf(iid)],
                    RoamPath(npcs[LastOf(iid)], chances[LastOf(iid)], rooms))
            ELSE [timers[iid] EXCEPT !.delay = @ - TickMs]]

(* the event loop after the roaming pass: the registered timers of the     *)
(* NPCs that start a route are cleared, the timers that stay pending are   *)
(* one tick nearer, and every timer put into the registry is pending       *)
RoamTimeouts(outs, timers, npcs, chances, rooms) ==
    LET started == {npcs[k].instanceId :
                       k \in {k \in DOMAIN npcs :
                                 RoamPath(npcs[k], chances[k], rooms) # NoPath}}
        armed == RoamTimers(timers, npcs, chances, rooms)
    IN  {[t EXCEPT !.delay = @ - TickMs] :
            t \in ClearedTimeouts(outs, timers, started)}
        \cup {Timeout(iid, armed[iid]) : iid \in started}

(* onTick of the behavior module shipped with the repository: when no     *)
(* player of the NPC's room is within 3 of it and the toss falls between   *)
(* .35 and .5, the room hears a bark and sees an emote                     *)
Near(npc, pos) ==
    \E id \in DOMAIN pos :
       /\ pos[id].zone = npc.zone
       /\ pos[id].roomId = npc.roomId
       /\ (pos[id].x - npc.x) * (pos[id].x - npc.x)
          + (pos[id].y - npc.y) * (pos[id].y - npc.y) < 9

OnTick(npc, toss, cl, pos) ==
    IF npc.behavior = ThrowingModule
    THEN BroadcastToRoom(cl, pos, npc.zone, npc.roomId,
            [type |-> "emote", instanceId |-> npc.instanceId,
             text |-> "oops"])
    ELSE IF ~Near(npc, pos) /\ toss < 50 /\ toss > 35
    THEN BroadcastToRoom(cl, pos, npc.zone, npc.roomId,
            [type |-> "play-audio", key |-> "bark", volume |-> 50])
         \o BroadcastToRoom(cl, pos, npc.zone, npc.roomId,
               [type |-> "emote", instanceId |-> npc.instanceId,
                text |-> "dog"])
    ELSE << >>

(* mutant: an onTick that throws ends the pass *)
BehaviorSentUntilThrow(npcs, chances, cl, pos) ==
    FlattenSeq([k \in DOMAIN npcs |->
        IF /\ npcs[k].behavior # Null
           /\ \A j \in 1..(k - 1) : npcs[j].behavior # ThrowingModule
        THEN OnTick(npcs[k], chances[k].toss, cl, pos) ELSE << >>])

(* the onTick pass: every NPC with a behavior module, in the order of the *)
(* list; what an onTick throws is caught and logged                        *)
BehaviorSent(npcs, chances, cl, pos) ==
    FlattenSeq([k \in DOMAIN npcs |->
        IF npcs[k].behavior # Null
        THEN OnTick(npcs[k], chances[k].toss, cl, pos) ELSE << >>])

(* what the disk does during one tick: whether the clock write, the write *)
(* of objects-state.json and the read of the NPC's room file succeed       *)
DiskOk == [clock |-> TRUE, objects |-> TRUE, room |-> TRUE]

(* process.on('uncaughtException'): the error is logged and                *)
(* gracefulShutdown starts, which clears the NPC timers at once            *)
UncaughtException ==
    /\ fatalLog' = "UNCAUGHT_EXCEPTION"
    /\ proc' = "shutting"
    /\ npcTimers' = ClearAllNpcTimers(npcTimers)
    /\ timeouts' = ClearedTimeouts(timeouts, npcTimers, DOMAIN npcTimers)

(* One run of the setInterval callback.  fs.writeFile of the clock reports *)
(* a failure to its callback, which logs it.  saveObjectsState and the     *)
(* read of the room file are synchronous and unguarded: when one throws,   *)
(* the rest of the callback is not run and the exception is uncaught.      *)
TickOnDisk(chances, disk) ==
    /\ Step
    /\ \A t \in timeouts : t.delay >= TickMs
    /\ gameTime' = AdvanceClock(gameTime)
    /\ stateFile' = IF gameTime'.tick % TicksPerHour = 0 /\ disk.clock
                    THEN gameTime' ELSE stateFile
    /\ LET due == {i \in DOMAIN objectInstances :
                      Respawns(objectInstances[i], gameTime'.tick)}
           timeSent == IF gameTime'.tick % TicksPerHour = 0
                       THEN BroadcastToAll(clients,
                               GetFormattedTimeMessage(gameTime'))
                       ELSE << >>
           sweepSent == SweepSent(objectInstances, gameTime'.tick, clients,
                                  positions)
           rolling == {k \in DOMAIN npcInstances :
                          /\ RoamEligible(npcInstances[k])
                          /\ chances[k].randRoll < npcInstances[k].roam.frequency}
       IN  IF ~disk.objects /\ due # {}
           THEN /\ objectInstances' =
                      [objectInstances EXCEPT ![Min(due)] = Respawned(@)]
                /\ lastPick' = NotePick(lastPick,
                                  objectInstances[Min(due)].instanceId, "none")
                /\ sent' = timeSent
                /\ UncaughtException
                /\ UNCHANGED objectsStateFile
           ELSE /\ objectInstances' =
                      SweepInstances(objectInstances, gameTime'.tick)
                /\ objectsStateFile' =
                      IF due # {} THEN SaveObjectsState(objectInstances')
                      ELSE objectsStateFile
                /\ lastPick' = [iid \in DOMAIN lastPick |->
                      IF \E i \in due : objectInstances[i].instanceId = iid
                      THEN "none" ELSE lastPick[iid]]
                /\ IF ~disk.room /\ rolling # {}
                   THEN /\ sent' = timeSent \o sweepSent
                        /\ UncaughtException
                   ELSE /\ sent' = timeSent \o sweepSent
                             \o RoamSent(npcInstances, chances, roomFiles,
                                         clients, positions)
                             \o BehaviorSent(npcInstances, chances, clients,
                                             positions)
                        /\ npcTimers' = RoamTimers(npcTimers, npcInstances,
                                                   chances, roomFiles)
                        /\ timeouts' = RoamTimeouts(timeouts, npcTimers,
                                            npcInstances, chances, roomFiles)
                        /\ UNCHANGED << proc, fatalLog >>
    /\ UNCHANGED << lastSocket, issued, npcStateFile, found,
                    clientId, clients, positions, nameMap, playerFiles,
                    roomFiles, everAuth, npcInstances >>

TickWith(chances) == TickOnDisk(chances, DiskOk)

Tick ==
    \E chances \in [DOMAIN npcInstances ->
                       [randRoll : RandRolls,
                        target : (0..MaxDim) \X (0..MaxDim),
                        toss : Tosses]] :
       /\ \A k \in DOMAIN npcInstances :
             chances[k] \in Chances(npcInstances[k], roomFiles)
       /\ TickWith(chances)

(* the NPCs a setTimeout is pending for *)
TimedNpcs == {t.iid : t \in timeouts}

(* the callback of a movement timer: the timer leaves the table, the NPC   *)
(* is put on the last cell of its route, the NPC state is saved and the    *)
(* room the NPC is in is told                                               *)
NpcAt(npcs, iid) == CHOOSE k \in DOMAIN npcs : npcs[k].instanceId = iid

(* saveNpcState is a synchronous, unguarded write: when it throws, the NPC *)
(* has been moved in memory only, the room is not told, and the exception  *)
(* is uncaught                                                              *)
NpcTimerFiresOnDisk(iid, writeOk) ==
    /\ Step
    /\ \E t \in timeouts :
       /\ t.iid = iid
       /\ t.delay <= TickMs
       /\ \A u \in timeouts : t.delay <= u.delay
       /\ LET k == NpcAt(npcInstances, iid)
              npc == [npcInstances[k] EXCEPT !.x = t.x, !.y = t.y]
          IN  /\ npcInstances' = [npcInstances EXCEPT ![k] = npc]
              /\ IF writeOk
                 THEN /\ npcTimers' = MapRemove(npcTimers, iid)
                      /\ timeouts' = timeouts \ {t}
                      /\ npcStateFile' = SaveNpcState(npcInstances')
                      /\ sent' = BroadcastToRoom(clients, positions,
                                    npc.zone, npc.roomId,
                                    [type |-> "npc-move",
                                     npc |-> StringifyNpc(npc)])
                      /\ UNCHANGED << proc, fatalLog >>
                 ELSE /\ UncaughtException
                      /\ sent' = << >>
                      /\ UNCHANGED npcStateFile
    /\ UNCHANGED << lastSocket, issued, gameTime, stateFile, clientId,
                    clients, positions, nameMap, objectInstances,
                    objectsStateFile, playerFiles, roomFiles, everAuth,
                    lastPick, found >>

NpcTimerFires(iid) == NpcTimerFiresOnDisk(iid, TRUE)

(* The process: termination signals, the callback of server.close, the     *)
(* 10 s forced exit, an unhandled promise rejection, and the next boot.    *)

Alive == proc \in {"running", "shutting"}

(* gracefulShutdown on SIGTERM or SIGINT.  The setInterval of the tick is   *)
(* not cleared, and the sockets of the clients are not closed.             *)
Signal ==
    /\ Alive
    /\ Step
    /\ proc' = "shutting"
    /\ npcTimers' = ClearAllNpcTimers(npcTimers)
    /\ timeouts' = ClearedTimeouts(timeouts, npcTimers, DOMAIN npcTimers)
    /\ sent' = << >>
    /\ UNCHANGED << gameTime, stateFile, clientId, clients, positions,
                    nameMap, objectInstances, objectsStateFile, playerFiles,
                    npcInstances, roomFiles, everAuth, lastPick, lastSocket,
                    issued, npcStateFile, found, fatalLog >>

(* the callback of server.close, called once no connection is left: the    *)
(* clock is written (a failure is logged) and the process exits            *)
CloseCompletes(writeOk) ==
    /\ proc = "shutting"
    /\ \A id \in DOMAIN clients : clients[id] # "OPEN"
    /\ stateFile' = IF writeOk THEN gameTime ELSE stateFile
    /\ proc' = "exit0"
    /\ sent' = << >>
    /\ UNCHANGED << gameTime, clientId, clients, positions, nameMap,
                    objectInstances, objectsStateFile, playerFiles,
                    npcInstances, roomFiles, everAuth, lastPick, lastSocket,
                    issued, npcTimers, timeouts, npcStateFile, found, fatalLog, steps >>

(* mutant: the forced exit waits for the connections to be gone *)
ForceExitOnceClosed ==
    /\ proc = "shutting"
    /\ \A id \in DOMAIN clients : clients[id] # "OPEN"
    /\ proc' = "exit1"
    /\ sent' = << >>
    /\ UNCHANGED << gameTime, stateFile, clientId, clients, positions,
                    nameMap, objectInstances, objectsStateFile, playerFiles,
                    npcInstances, roomFiles, everAuth, lastPick, lastSocket,
                    issued, npcTimers, timeouts, npcStateFile, found, fatalLog, steps >>

(* setTimeout(..., 10000) of gracefulShutdown *)
ForceExit ==
    /\ proc = "shutting"
    /\ proc' = "exit1"
    /\ sent' = << >>
    /\ UNCHANGED << gameTime, stateFile, clientId, clients, positions,
                    nameMap, objectInstances, objectsStateFile, playerFiles,
                    npcInstances, roomFiles, everAuth, lastPick, lastSocket,
                    issued, npcTimers, timeouts, npcStateFile, found, fatalLog, steps >>

(* process.on('unhandledRejection'): the reason is logged *)
UnhandledRejection ==
    /\ Alive
    /\ Step
    /\ fatalLog' = "UNHANDLED_REJECTION"
    /\ sent' = << >>
    /\ UNCHANGED << gameTime, stateFile, clientId, clients, positions,
                    nameMap, objectInstances, objectsStateFile, playerFiles,
                    npcInstances, roomFiles, everAuth, lastPick, lastSocket,
                    issued, npcTimers, timeouts, npcStateFile, found, proc >>

(* Boot.  The clock is read from state.json when it parses.  The objects   *)
(* are read from objects-state.json when it parses, and every spawn        *)
(* definition that no instance matches in type, zone, room, x and y gets a *)
(* new instance under a random id.                                          *)
FreshIds == << "I3", "I4", "I5", "I6", "I7", "I8" >>

FreshInstanceId(insts) ==
    FreshIds[Min({k \in DOMAIN FreshIds :
                     \A i \in DOMAIN insts : insts[i].instanceId # FreshIds[k]})]

GatherSpawnDefs(rooms) ==
    LET rids == AscendingIds(DOMAIN rooms)
    IN  FlattenSeq([k \in DOMAIN rids |-> rooms[rids[k]].spawns])

SpawnExists(insts, def) ==
    \E i \in DOMAIN insts :
       /\ insts[i].typeId = def.typeId
       /\ insts[i].zone = def.zone
       /\ insts[i].roomId = def.roomId
       /\ insts[i].x = def.x
       /\ insts[i].y = def.y

RECURSIVE Reconcile(_, _)

Reconcile(insts, defs) ==
    IF defs = << >> THEN insts
    ELSE Reconcile(
            IF SpawnExists(insts, Head(defs)) THEN insts
            ELSE Append(insts, NewInstance(Head(defs), FreshInstanceId(insts))),
            Tail(defs))

(* the behavior module of a template, which every instance of the type     *)
(* carried before the restart; npcs-state.json does not hold it            *)
TemplateBehavior(npcs, typeId) ==
    IF \E k \in DOMAIN npcs : npcs[k].typeId = typeId
    THEN npcs[Min({k \in DOMAIN npcs : npcs[k].typeId = typeId})].behavior
    ELSE Null

Boot(clockOk, objectsOk) ==
    /\ proc \in {"exit0", "exit1"}
    /\ Step
    /\ proc' = "running"
    /\ fatalLog' = "none"
    /\ gameTime' = IF clockOk THEN stateFile
                   ELSE [tick |-> 0, hour |-> 0, day |-> 0]
    /\ objectInstances' =
          Reconcile(IF objectsOk THEN objectsStateFile ELSE << >>,
                    GatherSpawnDefs(roomFiles))
    /\ objectsStateFile' = SaveObjectsState(objectInstances')
    /\ npcInstances' =
          [k \in DOMAIN npcStateFile |->
              [npcStateFile[k] EXCEPT
                  !.behavior = TemplateBehavior(npcInstances,
                                                npcStateFile[k].typeId)]]
    /\ clientId' = 0
    /\ clients' = << >>
    /\ positions' = << >>
    /\ nameMap' = << >>
    /\ npcTimers' = << >>
    /\ timeouts' = {}
    /\ sent' = << >>
    /\ lastSocket' = "none"
    /\ issued' = << >>
    /\ UNCHANGED << stateFile, playerFiles, roomFiles, npcStateFile, everAuth,
                    lastPick, found >>

-----------------------------------------------------------------------------
(* Messages clients send *)

AllInstanceIds == RealInstanceIds \cup {UnknownInstance}
UpdateMsgs == {[x |-> 400, y |-> 300, roomId |-> 0],
               [x |-> 32, y |-> 64, roomId |-> 1]}
MsgRooms == {[zone |-> "0", roomId |-> 0], [zone |-> "0", roomId |-> 1],
             [zone |-> "1", roomId |-> 0]}
PickupMsgs ==
    {[instanceId |-> iid, zone |-> t.zone, roomId |-> t.roomId] :
        iid \in RealInstanceIds, t \in MsgRooms}
    \cup {[instanceId |-> UnknownInstance, zone |-> "0", roomId |-> 0]}
DropMsgs ==
    {[instanceId |-> iid, zone |-> t.zone, roomId |-> t.roomId,
      x |-> 3, y |-> 4] : iid \in RealInstanceIds, t \in MsgRooms}
    \cup {[instanceId |-> UnknownInstance, zone |-> "0", roomId |-> 0,
           x |-> 3, y |-> 4]}
(* the administrator logs in; a new character is created *)
AuthMsgs == {[name |-> "Ava", password |-> "pwA", create |-> FALSE],
             [name |-> "Bo", password |-> "pwB", create |-> TRUE]}

-----------------------------------------------------------------------------
(* The state after boot, with no persisted object or clock state *)

Init ==
    /\ gameTime = [tick |-> 0, hour |-> 0, day |-> 0]
    /\ stateFile = [tick |-> 0, hour |-> 0, day |-> 0]
    /\ clientId = 0
    /\ clients = << >>
    /\ positions = << >>
    /\ nameMap = << >>
    /\ objectInstances = InitObjectInstances
    /\ objectsStateFile = SaveObjectsState(InitObjectInstances)
    /\ playerFiles = InitPlayerFiles
    /\ npcInstances = InitNpcInstances
    /\ roomFiles = InitRoomFiles
    /\ sent = << >>
    /\ everAuth = {}
    /\ lastPick = [iid \in RealInstanceIds |-> "none"]
    /\ steps = 0
    /\ lastSocket = "none"
    /\ issued = << >>
    /\ npcTimers = << >>
    /\ timeouts = {}
    /\ npcStateFile = SaveNpcState(InitNpcInstances)
    /\ proc = "running"
    /\ found = NoSearch
    /\ fatalLog = "none"

Next ==
    \/ \E a \in AuthMsgs : AuthMessage(a.name, a.password, a.create, "s1")
    \/ \E id \in DOMAIN positions, m \in UpdateMsgs : Update(id, m)
    \/ \E id \in DOMAIN positions, m \in PickupMsgs : Pickup(id, m)
    \/ \E id \in DOMAIN positions, m \in DropMsgs : Drop(id, m)
    \/ \E id \in DOMAIN positions : Close(id)
    \/ Tick

Spec == Init /\ [][Next]_vars

-----------------------------------------------------------------------------
(* Room editing, from the state the server is in once the administrator Ava *)
(* and the new character Bo have connected and a third connection has been  *)
(* refused and closed, which leaves its closed socket in clients.           *)

EditMsg(roomId, x, y, terrain) ==
    [type |-> "edit-tile", roomId |-> roomId, zoneId |-> Absent,
     x |-> x, y |-> y, terrain |-> terrain]

ExitsMsg(roomId, x, y, tileExits) ==
    [type |-> "edit-tile-exits", roomId |-> roomId, zoneId |-> Absent,
     x |-> x, y |-> y, terrain |-> Absent, tileExits |-> tileExits]

ResizeMsg(roomId, width, height) ==
    [type |-> "resize-room", roomId |-> roomId, zoneId |-> Absent,
     width |-> width, height |-> height]

(* cells a request names: corners of the largest room, and one beyond it *)
EditCoords ==
    {<< 0, 0 >>, << 1, 1 >>, << MaxDim - 1, 0 >>, << 0, MaxDim - 1 >>,
     << MaxDim, 0 >>}

TerrainInputs ==
    {Str(Sand), Str(<< >>), Absent, Str(<< "a", "!" >>), Num(7)}

EditTileMsgs ==
    {EditMsg(Num(0), Num(c[1]), Num(c[2]), t) : c \in EditCoords, t \in TerrainInputs}
    \cup {EditMsg(Num(1), Num(0), Num(0), Str(Sand)),
          EditMsg(Str(<< "1" >>), Num(0), Num(0), Str(Water)),
          EditMsg(Str(<< "x" >>), Num(0), Num(0), Str(Sand)),
          EditMsg(Num(7), Num(0), Num(0), Str(Sand)),
          EditMsg(Num(0), Num(0 - 1), Num(0), Str(Sand)),
          EditMsg(Num(0), NumAndHalf(0), Num(0), Str(Sand)),
          [EditMsg(Num(0), Num(0), Num(0), Str(Sand)) EXCEPT !.zoneId = Num(1)]}

TileExitsInputs ==
    {JsNull,
     Obj(<< [k |-> "left", v |-> ExitTo(1, 0, 0)] >>),
     Obj(<< [k |-> "north", v |-> ExitTo(1, 0, 0)] >>),
     Obj(<< [k |-> "up", v |-> ExitTo(1, 0 - 1, 0)] >>),
     Obj(<< [k |-> "up", v |-> JsNull] >>),
     Str(<< "x" >>)}

EditTileExitsMsgs ==
    {ExitsMsg(Num(0), Num(c[1]), Num(c[2]), e) :
        c \in {<< 0, 0 >>, << 1, 1 >>, << MaxDim, 0 >>}, e \in TileExitsInputs}
    \cup {ExitsMsg(Num(1), Num(0), Num(0), Absent),
          [ExitsMsg(Num(0), Num(0), Num(0), JsNull)
              EXCEPT !.terrain = Str(<< "a", "!" >>)]}

ResizeMsgs ==
    {ResizeMsg(Num(0), Num(w), Num(h)) : w \in 1..MaxDim, h \in 1..MaxDim}
    \cup {ResizeMsg(Num(1), Num(2), Num(1)),
          ResizeMsg(Num(0), Num(0), Num(1)),
          ResizeMsg(Num(0), Num(1), Num(MaxRoomSize + 1)),
          ResizeMsg(Num(0), NumAndHalf(1), Num(1)),
          ResizeMsg(Num(7), Num(1), Num(1))}

InitRoom ==
    LET ava == InitialPos(InitPlayerFiles, 0, "Ava", "pwA", "s1")
        bo == InitialPos(InitPlayerFiles, 1, "Bo", "pwB", "s1")
    IN  /\ gameTime = [tick |-> 0, hour |-> 0, day |-> 0]
        /\ stateFile = [tick |-> 0, hour |-> 0, day |-> 0]
        /\ clientId = 3
        /\ clients = [id \in 0..2 |-> IF id = 2 THEN "CLOSED" ELSE "OPEN"]
        /\ positions = [id \in 0..1 |->
                            RegistryEntry(IF id = 0 THEN ava ELSE bo)]
        /\ nameMap = [id \in 0..2 |-> IF id = 1 THEN "Bo" ELSE "Ava"]
        /\ objectInstances = InitObjectInstances
        /\ objectsStateFile = SaveObjectsState(InitObjectInstances)
        /\ playerFiles = SavePlayerData(InitPlayerFiles, bo)
        /\ npcInstances = InitNpcInstances
        /\ roomFiles = InitRoomFiles
        /\ sent = << Msg(2, ErrorMsg(AuthRefusal(playerFiles, "Ava", "pwA", TRUE))) >>
        /\ everAuth = {"Ava", "Bo"}
        /\ lastPick = [iid \in RealInstanceIds |-> "none"]
        /\ steps = 0
        /\ lastSocket = "CLOSED"
        /\ issued = << 0, 1 >>
        /\ npcTimers = << >>
        /\ timeouts = {}
        /\ npcStateFile = SaveNpcState(InitNpcInstances)
        /\ proc = "running"
        /\ found = NoSearch
        /\ fatalLog = "none"

NextRoom ==
    \/ \E id \in DOMAIN positions, m \in EditTileMsgs : EditTile(id, m, TRUE)
    \/ \E id \in DOMAIN positions, m \in EditTileExitsMsgs :
          EditTileExits(id, m, TRUE)
    \/ \E id \in DOMAIN positions, m \in ResizeMsgs : ResizeRoom(id, m, TRUE)

SpecRoom == InitRoom /\ [][NextRoom]_vars

(* The same edits with writeFileSync free to throw inside safeFileWrite *)
NextRoomFault ==
    \/ \E id \in DOMAIN positions, m \in EditTileMsgs, writeOk \in BOOLEAN :
          EditTile(id, m, writeOk)
    \/ \E id \in DOMAIN positions, m \in EditTileExitsMsgs, writeOk \in BOOLEAN :
          EditTileExits(id, m, writeOk)
    \/ \E id \in DOMAIN positions, m \in ResizeMsgs, writeOk \in BOOLEAN :
          ResizeRoom(id, m, writeOk)

SpecRoomFault == InitRoom /\ [][NextRoomFault]_vars

-----------------------------------------------------------------------------
(* Authentication, with every shape of first message and with the file     *)
(* system failing: besides the administrator's file the players directory  *)
(* holds a file written before passwords existed, without salt and hash.   *)

LegacyRecord ==
    [name |-> "Cy", x |-> 32, y |-> 64, roomId |-> 1, color |-> "blue",
     inventory |-> {}, privilege |-> 0, salt |-> "", hash |-> NoHash]

FirstMsgs ==
    {[parses |-> TRUE, name |-> n, password |-> p, create |-> c] :
        n \in {"Ava", "Bo", "Cy"}, p \in {"pwA", "bad"}, c \in BOOLEAN}
    \cup {[parses |-> FALSE, name |-> "", password |-> "", create |-> FALSE],
          [parses |-> TRUE, name |-> "", password |-> "pwA", create |-> TRUE],
          [parses |-> TRUE, name |-> "Ava", password |-> "", create |-> FALSE]}

(* the outcomes of the handler's file operations: all succeed, the read    *)
(* throws, or the write throws                                              *)
FileOutcomes ==
    {[readOk |-> TRUE, writeOk |-> TRUE], [readOk |-> FALSE, writeOk |-> TRUE],
     [readOk |-> TRUE, writeOk |-> FALSE]}

InitAuth ==
    /\ gameTime = [tick |-> 0, hour |-> 0, day |-> 0]
    /\ stateFile = [tick |-> 0, hour |-> 0, day |-> 0]
    /\ clientId = 0
    /\ clients = << >>
    /\ positions = << >>
    /\ nameMap = << >>
    /\ objectInstances = InitObjectInstances
    /\ objectsStateFile = SaveObjectsState(InitObjectInstances)
    /\ playerFiles = MapPut(InitPlayerFiles, "Cy", LegacyRecord)
    /\ npcInstances = InitNpcInstances
    /\ roomFiles = InitRoomFiles
    /\ sent = << >>
    /\ everAuth = {}
    /\ lastPick = [iid \in RealInstanceIds |-> "none"]
    /\ steps = 0
    /\ lastSocket = "none"
    /\ issued = << >>
    /\ npcTimers = << >>
    /\ timeouts = {}
    /\ npcStateFile = SaveNpcState(InitNpcInstances)
    /\ proc = "running"
    /\ found = NoSearch
    /\ fatalLog = "none"

(* the apple, asked for in its room and dropped in the other room *)
ApplePickup == [instanceId |-> "I1", zone |-> "0", roomId |-> 0]
AppleDrop == [instanceId |-> "I1", zone |-> "0", roomId |-> 1, x |-> 3, y |-> 4]

RawMsgs ==
    {[parses |-> FALSE, json |-> "", type |-> "", zone |-> Absent],
     [parses |-> TRUE, json |-> "null", type |-> "", zone |-> Absent],
     [parses |-> TRUE, json |-> "object", type |-> "pickup", zone |-> Absent],
     [parses |-> TRUE, json |-> "object", type |-> "drop", zone |-> JsNull],
     [parses |-> TRUE, json |-> "object", type |-> "pickup", zone |-> Num(0)],
     [parses |-> TRUE, json |-> "object", type |-> "update", zone |-> Absent]}

NextAuth ==
    \/ \E id \in DOMAIN positions, raw \in RawMsgs : ThrowingMessage(id, raw)
    \/ /\ clientId < MaxConns
       /\ \E m \in FirstMsgs, f \in FileOutcomes :
             FirstMessage(m, "s1", f.readOk, f.writeOk)
    \/ \E id \in DOMAIN positions : Pickup(id, ApplePickup)
    \/ \E id \in DOMAIN positions : Drop(id, AppleDrop)
    \/ \E id \in DOMAIN positions : Close(id)

SpecAuth == InitAuth /\ [][NextAuth]_vars

-----------------------------------------------------------------------------
(* A world whose NPC template has a roam block, from the state the server  *)
(* is in once Ava and Bo have connected and a third connection has been    *)
(* refused.  Room 0 is 3 x 3 here: from the corner the NPC stands on, the   *)
(* far corner is four steps away, a route of 1280 ms, which outlasts a     *)
(* tick; every other cell is nearer than minDuration.                       *)

RoamingNpcInstances ==
    << [InitNpcInstances[1] EXCEPT !.x = 2, !.y = 2, !.roam =
           [type |-> "random", frequency |-> 50, minDuration |-> 4,
            maxDuration |-> 4, rate |-> 1]] >>

RoamingRoomFiles ==
    [InitRoomFiles EXCEPT ![0] =
        [@ EXCEPT !.width = 3, !.height = 3,
                  !.tiles = [y \in 1..3 |->
                                [x \in 1..3 |-> ShippedTile(x - 1, y - 1)]]]]

InitNpc ==
    LET ava == InitialPos(InitPlayerFiles, 0, "Ava", "pwA", "s1")
        bo == InitialPos(InitPlayerFiles, 1, "Bo", "pwB", "s1")
    IN  /\ gameTime = [tick |-> 0, hour |-> 0, day |-> 0]
        /\ stateFile = [tick |-> 0, hour |-> 0, day |-> 0]
        /\ clientId = 3
        /\ clients = [id \in 0..2 |-> IF id = 2 THEN "CLOSED" ELSE "OPEN"]
        /\ positions = [id \in 0..1 |->
                            RegistryEntry(IF id = 0 THEN ava ELSE bo)]
        /\ nameMap = [id \in 0..2 |-> IF id = 1 THEN "Bo" ELSE "Ava"]
        /\ objectInstances = InitObjectInstances
        /\ objectsStateFile = SaveObjectsState(InitObjectInstances)
        /\ playerFiles = SavePlayerData(InitPlayerFiles, bo)
        /\ npcInstances = RoamingNpcInstances
        /\ roomFiles = RoamingRoomFiles
        /\ sent = << Msg(2, ErrorMsg(AuthRefusal(playerFiles, "Ava", "pwA", TRUE))) >>
        /\ everAuth = {"Ava", "Bo"}
        /\ lastPick = [iid \in RealInstanceIds |-> "none"]
        /\ steps = 0
        /\ lastSocket = "CLOSED"
        /\ issued = << 0, 1 >>
        /\ npcTimers = << >>
        /\ timeouts = {}
        /\ npcStateFile = SaveNpcState(RoamingNpcInstances)
        /\ proc = "running"
        /\ found = NoSearch
        /\ fatalLog = "none"

(* the apple is put down in either room, or in a zone nobody is in *)
AppleDrops == {AppleDrop, [AppleDrop EXCEPT !.roomId = 1],
               [AppleDrop EXCEPT !.zone = "1"]}

NextNpc ==
    \/ \E id \in DOMAIN positions, m \in UpdateMsgs : Update(id, m)
    \/ \E id \in DOMAIN positions : Pickup(id, ApplePickup)
    \/ \E id \in DOMAIN positions, m \in AppleDrops : Drop(id, m)
    \/ \E id \in DOMAIN positions : Close(id)
    \/ Tick
    \/ \E iid \in TimedNpcs : NpcTimerFires(iid)

SpecNpc == InitNpc /\ [][NextNpc]_vars

-----------------------------------------------------------------------------
(* findPath on its own: called with the tiles of a rectangular room, a     *)
(* start cell and an end cell.                                              *)

MaxVoid == 2

(* roomDef.tiles of a width x height room whose cells in voids are void *)
GridOf(width, height, voids) ==
    [y \in 1..height |->
        [x \in 1..width |->
            IF << x - 1, y - 1 >> \in voids THEN VoidTile
            ELSE ShippedTile(x - 1, y - 1)]]

CellsOf(width, height) == (0..(width - 1)) \X (0..(height - 1))

Search(width, height, voids, start, end) ==
    /\ found' = [width |-> width, height |-> height, voids |-> voids,
                 start |-> start, end |-> end,
                 path |-> FindPath(start, end, GridOf(width, height, voids))]
    /\ UNCHANGED << gameTime, stateFile, clientId, clients, positions,
                    nameMap, objectInstances, objectsStateFile, playerFiles,
                    npcInstances, roomFiles, sent, everAuth, lastPick, steps,
                    lastSocket, issued, npcTimers, timeouts, npcStateFile, proc,
                    fatalLog >>

(* one call, from the state after boot *)
NextPath ==
    /\ found = NoSearch
    /\ \E width \in 1..MaxDim, height \in 1..MaxDim :
          \E voids \in SUBSET CellsOf(width, height) :
             /\ Cardinality(voids) <= MaxVoid
             /\ \E start \in CellsOf(width, height),
                   end \in CellsOf(width, height) :
                   Search(width, height, voids, start, end)

SpecPath == Init /\ [][NextPath]_vars

-----------------------------------------------------------------------------
(* Roam decisions: one NPC whose template may carry any of a few roam      *)
(* policies, on a corner of a 3 x 3 room whose middle cell is void, with    *)
(* Ava and Bo connected.                                                    *)

RoamPolicies ==
    {[type |-> "random", frequency |-> 50, minDuration |-> lo,
      maxDuration |-> hi, rate |-> 1] : lo \in {0, 1, 3}, hi \in {0, 2, 4}}

WalledRoomFiles ==
    [InitRoomFiles EXCEPT ![0] =
        [@ EXCEPT !.width = 3, !.height = 3,
                  !.tiles = GridOf(3, 3, {<< 1, 1 >>})]]

InitRoam ==
    LET ava == InitialPos(InitPlayerFiles, 0, "Ava", "pwA", "s1")
        bo == InitialPos(InitPlayerFiles, 1, "Bo", "pwB", "s1")
    IN  /\ gameTime = [tick |-> 0, hour |-> 0, day |-> 0]
        /\ stateFile = [tick |-> 0, hour |-> 0, day |-> 0]
        /\ clientId = 2
        /\ clients = [id \in 0..1 |-> "OPEN"]
        /\ positions = [id \in 0..1 |->
                            RegistryEntry(IF id = 0 THEN ava ELSE bo)]
        /\ nameMap = [id \in 0..1 |-> IF id = 1 THEN "Bo" ELSE "Ava"]
        /\ objectInstances = InitObjectInstances
        /\ objectsStateFile = SaveObjectsState(InitObjectInstances)
        /\ playerFiles = SavePlayerData(InitPlayerFiles, bo)
        /\ \E roam \in RoamPolicies, at \in {0, 2} :
              npcInstances = << [InitNpcInstances[1] EXCEPT
                                    !.x = at, !.y = at, !.roam = roam] >>
        /\ roomFiles = WalledRoomFiles
        /\ sent = << >>
        /\ everAuth = {"Ava", "Bo"}
        /\ lastPick = [iid \in RealInstanceIds |-> "none"]
        /\ steps = 0
        /\ lastSocket = "OPEN"
        /\ issued = << 0, 1 >>
        /\ npcTimers = << >>
        /\ timeouts = {}
        /\ npcStateFile = SaveNpcState(npcInstances)
        /\ proc = "running"
        /\ found = NoSearch
        /\ fatalLog = "none"

NextRoam ==
    \/ Tick
    \/ \E iid \in TimedNpcs : NpcTimerFires(iid)

SpecRoam == InitRoam /\ [][NextRoam]_vars

(* The same roaming NPC while the administrator resizes its room *)
RoomSizes ==
    {ResizeMsg(Num(0), Num(w), Num(h)) : w \in {1, MaxDim}, h \in {1, MaxDim}}

NextRoamResize ==
    \/ Tick
    \/ \E iid \in TimedNpcs : NpcTimerFires(iid)
    \/ \E id \in DOMAIN positions, m \in RoomSizes : ResizeRoom(id, m, TRUE)

SpecRoamResize == InitRoam /\ [][NextRoamResize]_vars

-----------------------------------------------------------------------------
(* Behavior hooks: two NPCs in the 3 x 3 room, one with a behavior module  *)
(* whose onTick throws, in either order in the list, and one that roams    *)
(* and has the shipped module; Ava and Bo are connected.                   *)

LivelyNpcInstances ==
    << [RoamingNpcInstances[1] EXCEPT !.behavior = "fido"] >>

ThrowingNpc ==
    [InitNpcInstances[1] EXCEPT !.instanceId = "N2", !.typeId = "thrower",
                                !.name = "Thrower",
                                !.behavior = ThrowingModule]

InitBehave ==
    LET ava == InitialPos(InitPlayerFiles, 0, "Ava", "pwA", "s1")
        bo == InitialPos(InitPlayerFiles, 1, "Bo", "pwB", "s1")
    IN  /\ gameTime = [tick |-> 0, hour |-> 0, day |-> 0]
        /\ stateFile = [tick |-> 0, hour |-> 0, day |-> 0]
        /\ clientId = 2
        /\ clients = [id \in 0..1 |-> "OPEN"]
        /\ positions = [id \in 0..1 |->
                            RegistryEntry(IF id = 0 THEN ava ELSE bo)]
        /\ nameMap = [id \in 0..1 |-> IF id = 1 THEN "Bo" ELSE "Ava"]
        /\ objectInstances = InitObjectInstances
        /\ objectsStateFile = SaveObjectsState(InitObjectInstances)
        /\ playerFiles = SavePlayerData(InitPlayerFiles, bo)
        /\ npcInstances \in {<< ThrowingNpc, LivelyNpcInstances[1] >>,
                              << LivelyNpcInstances[1], ThrowingNpc >>}
        /\ roomFiles = RoamingRoomFiles
        /\ sent = << >>
        /\ everAuth = {"Ava", "Bo"}
        /\ lastPick = [iid \in RealInstanceIds |-> "none"]
        /\ steps = 0
        /\ lastSocket = "OPEN"
        /\ issued = << 0, 1 >>
        /\ npcTimers = << >>
        /\ timeouts = {}
        /\ npcStateFile = SaveNpcState(npcInstances)
        /\ proc = "running"
        /\ found = NoSearch
        /\ fatalLog = "none"

NextBehave ==
    \/ Tick
    \/ \E iid \in TimedNpcs : NpcTimerFires(iid)
    \/ \E id \in DOMAIN positions : Close(id)

SpecBehave == InitBehave /\ [][NextBehave]_vars

-----------------------------------------------------------------------------
(* The life of the process: ticks, timers, object handlers, shutdown and   *)
(* restart, in a world whose NPC roams and has the shipped behavior        *)
(* module, from the state the server is in once Ava and Bo have connected, *)
(* with the clock shortly before a minute boundary or a day boundary.      *)

ClockAt(tick) ==
    [tick |-> tick, hour |-> (tick \div TicksPerHour) % HoursPerDay,
     day |-> tick \div (TicksPerHour * HoursPerDay)]

(* the clock state.json holds when no shutdown has written it: that of the *)
(* last minute boundary                                                     *)
PersistedAt(tick) == ClockAt(tick - (tick % TicksPerHour))

ClockStarts == {TicksPerHour - 2, TicksPerHour * HoursPerDay - 1}

InitLife ==
    LET ava == InitialPos(InitPlayerFiles, 0, "Ava", "pwA", "s1")
        bo == InitialPos(InitPlayerFiles, 1, "Bo", "pwB", "s1")
    IN  /\ \E t \in ClockStarts :
              /\ gameTime = ClockAt(t)
              /\ stateFile = PersistedAt(t)
        /\ clientId = 2
        /\ clients = [id \in 0..1 |-> "OPEN"]
        /\ positions = [id \in 0..1 |->
                            RegistryEntry(IF id = 0 THEN ava ELSE bo)]
        /\ nameMap = [id \in 0..1 |-> IF id = 1 THEN "Bo" ELSE "Ava"]
        /\ objectInstances = InitObjectInstances
        /\ objectsStateFile = SaveObjectsState(InitObjectInstances)
        /\ playerFiles = SavePlayerData(InitPlayerFiles, bo)
        /\ npcInstances = LivelyNpcInstances
        /\ roomFiles = RoamingRoomFiles
        /\ sent = << >>
        /\ everAuth = {"Ava", "Bo"}
        /\ lastPick = [iid \in RealInstanceIds |-> "none"]
        /\ steps = 0
        /\ lastSocket = "OPEN"
        /\ issued = << 0, 1 >>
        /\ npcTimers = << >>
        /\ timeouts = {}
        /\ npcStateFile = SaveNpcState(LivelyNpcInstances)
        /\ proc = "running"
        /\ found = NoSearch
        /\ fatalLog = "none"

NextLife ==
    \/ Alive /\ Tick
    \/ Alive /\ \E iid \in TimedNpcs : NpcTimerFires(iid)
    \/ Alive /\ \E id \in DOMAIN positions : Pickup(id, ApplePickup)
    \/ Alive /\ \E id \in DOMAIN positions : Drop(id, AppleDrop)
    \/ Alive /\ \E id \in DOMAIN positions : Close(id)
    \/ Signal
    \/ CloseCompletes(TRUE)
    \/ ForceExit
    \/ \E clockOk \in BOOLEAN, objectsOk \in BOOLEAN : Boot(clockOk, objectsOk)

SpecLife == InitLife /\ [][NextLife]_vars

(* the forced-exit timer armed by gracefulShutdown fires 10 s later        *)
(* whatever else the process does                                           *)
SpecLifeFair == SpecLife /\ WF_vars(ForceExit)

-----------------------------------------------------------------------------
(* The same world on a disk that may fail, and with promise rejections     *)
(* nobody handles.                                                          *)

(* at most one of the three operations fails in a tick *)
DiskOutcomes ==
    {DiskOk, [DiskOk EXCEPT !.clock = FALSE],
     [DiskOk EXCEPT !.objects = FALSE], [DiskOk EXCEPT !.room = FALSE]}

NextFault ==
    \/ /\ Alive
       /\ \E disk \in DiskOutcomes :
             \E chances \in [DOMAIN npcInstances ->
                                [randRoll : RandRolls,
                                 target : (0..MaxDim) \X (0..MaxDim),
                                 toss : Tosses]] :
                /\ \A k \in DOMAIN npcInstances :
                      chances[k] \in Chances(npcInstances[k], roomFiles)
                /\ TickOnDisk(chances, disk)
    \/ /\ Alive
       /\ \E iid \in TimedNpcs, writeOk \in BOOLEAN :
             NpcTimerFiresOnDisk(iid, writeOk)
    \/ Alive /\ \E id \in DOMAIN positions : Pickup(id, ApplePickup)
    \/ ForceExit
    \/ UnhandledRejection

SpecFault == InitLife /\ [][NextFault]_vars

-----------------------------------------------------------------------------
(* Observations used by the properties *)

OpenInRoom(cl, pos, zone, roomId) ==
    {id \in DOMAIN pos : /\ IsOpen(cl, id)
                         /\ pos[id].zone = zone
                         /\ pos[id].roomId = roomId}

(* how many messages of kind `type` about instance `iid` were sent to `to` *)
CountAbout(out, to, type, iid) ==
    Cardinality({k \in DOMAIN out :
        /\ out[k].to = to
        /\ out[k].msg.type = type
        /\ out[k].msg.instance.instanceId = iid})

(* the room-scoped event `type` about instance `iid` went once to every    *)
(* open connection registered in (zone, roomId), and to nobody else        *)
SentOnceToRoom(out, cl, pos, zone, roomId, type, iid) ==
    \A id \in DOMAIN cl \cup DOMAIN pos :
        CountAbout(out, id, type, iid) =
            IF id \in OpenInRoom(cl, pos, zone, roomId) THEN 1 ELSE 0

NoneSentAbout(out, type, iid) ==
    \A k \in DOMAIN out :
        out[k].msg.type = type => out[k].msg.instance.instanceId # iid

ConnectedNames == {positions[id].name : id \in DOMAIN positions}

-----------------------------------------------------------------------------
(* C1: in every reachable state each instance's pickedUpBy is null or the   *)
(* name of a player that authenticated at some time, connected or not.      *)
C1_OwnerIsNullOrAuthenticated ==
    \A i \in DOMAIN objectInstances :
        \/ objectInstances[i].pickedUpBy = Null
        \/ objectInstances[i].pickedUpBy \in everAuth

(* an instance held by a player who has since disconnected *)
C1_Witness ==
    \E i \in DOMAIN objectInstances :
        /\ objectInstances[i].pickedUpBy # Null
        /\ objectInstances[i].pickedUpBy \notin ConnectedNames
        /\ positions # << >>

(* C2, as stated: of two consecutive pickup requests for one instance with  *)
(* no drop or respawn of it between them, exactly one succeeds.             *)
C2_ExactlyOneOfTwoSucceeds ==
    [][\A id \in DOMAIN positions, m \in PickupMsgs :
          (/\ Pickup(id, m)
           /\ m.instanceId \in DOMAIN lastPick
           /\ lastPick[m.instanceId] # "none")
          => ((lastPick[m.instanceId] = "took")
                 # (lastPick'[m.instanceId] = "took"))]_vars

(* C2, amended: a pickup request for an instance that exists, is unowned    *)
(* and lies in the zone and room the request names succeeds (owner set to   *)
(* the caller's name, removedAt stamped, object-picked sent to the room),   *)
(* and a request that follows a successful one with no drop or respawn      *)
(* between is a no-op: instances unchanged, nothing sent.  So at most one   *)
(* of two such requests succeeds.                                           *)
C2_SecondPickupIsNoOp ==
    [][\A id \in DOMAIN positions, m \in PickupMsgs :
          Pickup(id, m) =>
            LET k == FindInstance(objectInstances, m.instanceId)
            IN  /\ (m.instanceId \in DOMAIN lastPick
                        /\ lastPick[m.instanceId] = "took")
                    => (/\ objectInstances' = objectInstances
                        /\ objectsStateFile' = objectsStateFile
                        /\ sent' = << >>)
                /\ (/\ k # 0
                     /\ objectInstances[k].pickedUpBy = Null
                     /\ objectInstances[k].zone = m.zone
                     /\ objectInstances[k].roomId = m.roomId)
                    => (/\ objectInstances'[k].pickedUpBy = positions[id].name
                        /\ objectInstances'[k].removedAt = gameTime.tick
                        /\ SentOnceToRoom(sent', clients, positions, m.zone,
                               m.roomId, "object-picked", m.instanceId))]_vars

(* a held instance whose last pickup request since it was taken did nothing *)
C2_Witness ==
    \E i \in DOMAIN objectInstances :
        /\ objectInstances[i].pickedUpBy # Null
        /\ lastPick[objectInstances[i].instanceId] = "noop"

(* C3: a pickup changes an instance's ownership only if the instance is     *)
(* unowned and located in the zone and room in which the requesting         *)
(* connection is registered.                                                *)
C3_PickupOnlyInRegisteredRoom ==
    [][\A id \in DOMAIN positions, m \in PickupMsgs :
          Pickup(id, m) =>
            \A i \in DOMAIN objectInstances :
                objectInstances'[i] # objectInstances[i]
                => (/\ objectInstances[i].instanceId = m.instanceId
                    /\ objectInstances[i].pickedUpBy = Null
                    /\ objectInstances[i].zone = positions[id].zone
                    /\ objectInstances[i].roomId = positions[id].roomId)]_vars

(* C4: on every tick, an owned instance with respawnAfterSec = R becomes    *)
(* unowned exactly when tick - removedAt >= R (for every removedAt >= 0),   *)
(* with one object-spawned to its room; otherwise it is left alone and no   *)
(* object-spawned is sent for it.                                           *)
C4_RespawnWhenDue ==
    [][Tick =>
         \A i \in DOMAIN objectInstances :
            LET inst == objectInstances[i]
                due == /\ inst.pickedUpBy # Null
                       /\ inst.respawnAfterSec # NullNum
                       /\ inst.removedAt # NullNum
                       /\ gameTime'.tick - inst.removedAt >= inst.respawnAfterSec
            IN  IF due
                THEN /\ objectInstances'[i].pickedUpBy = Null
                     /\ SentOnceToRoom(sent', clients, positions, inst.zone,
                            inst.roomId, "object-spawned", inst.instanceId)
                ELSE /\ objectInstances'[i] = inst
                     /\ NoneSentAbout(sent', "object-spawned",
                                      inst.instanceId)]_vars

(* C5: a drop takes effect if and only if the instance is owned by the      *)
(* caller's name; then the instance is unowned at the submitted x,y with    *)
(* removedAt null, object-dropped carrying it goes to the room it was       *)
(* dropped in, and the caller's player record holds the caller's current    *)
(* inventory; otherwise nothing is mutated and nothing is sent.             *)
C5_DropIffOwnedByCaller ==
    [][\A id \in DOMAIN positions, m \in DropMsgs :
          Drop(id, m) =>
            LET k == FindInstance(objectInstances, m.instanceId)
                name == positions[id].name
            IN  IF k # 0 /\ objectInstances[k].pickedUpBy = name
                THEN /\ objectInstances'[k].pickedUpBy = Null
                     /\ objectInstances'[k].removedAt = NullNum
                     /\ objectInstances'[k].x = m.x
                     /\ objectInstances'[k].y = m.y
                     /\ \A j \in DOMAIN objectInstances \ {k} :
                            objectInstances'[j] = objectInstances[j]
                     /\ objectsStateFile' = objectInstances'
                     /\ SentOnceToRoom(sent', clients, positions,
                            objectInstances'[k].zone, objectInstances'[k].roomId,
                            "object-dropped", m.instanceId)
                     /\ \A n \in DOMAIN sent' :
                            sent'[n].msg = [type |-> "object-dropped",
                                           instance |-> objectInstances'[k]]
                     /\ name \in DOMAIN playerFiles'
                     /\ playerFiles'[name].inventory =
                            {objectInstances'[j].instanceId :
                               j \in {j \in DOMAIN objectInstances' :
                                        objectInstances'[j].pickedUpBy = name}}
                ELSE /\ objectInstances' = objectInstances
                     /\ objectsStateFile' = objectsStateFile
                     /\ positions' = positions
                     /\ playerFiles' = playerFiles
                     /\ sent' = << >>]_vars

(* an effective drop was just announced to a connection in the room *)
C5_Witness ==
    \E n \in DOMAIN sent :
        /\ sent[n].msg.type = "object-dropped"
        /\ sent[n].msg.instance.pickedUpBy = Null
        /\ sent[n].msg.instance.x = 3
        /\ sent[n].msg.instance.y = 4


-----------------------------------------------------------------------------
(* Observations on room editing steps *)

RoomEditors == DOMAIN positions

SentTypes(out) == {out[k].msg.type : k \in DOMAIN out}

OnlyAnErrorTo(out, id) ==
    /\ Len(out) = 1
    /\ out[1].to = id
    /\ out[1].msg.type = "error"

RoomOf(m) == ValidateRoomId(Get(m.roomId)).sanitized

(* what a reader of the file gets for the tile at 0-based (x, y) *)
ReadTile(files, roomId, x, y) == files[roomId].tiles[y + 1][x + 1]

SameButTile(old, new, x, y) ==
    /\ DOMAIN new.tiles = DOMAIN old.tiles
    /\ \A r \in DOMAIN old.tiles :
          /\ DOMAIN new.tiles[r] = DOMAIN old.tiles[r]
          /\ \A c \in DOMAIN old.tiles[r] :
                (r # y + 1 \/ c # x + 1) => new.tiles[r][c] = old.tiles[r][c]
    /\ new.exits = old.exits
    /\ new.width = old.width
    /\ new.height = old.height

OtherRoomsUntouched(old, new, roomId) ==
    /\ DOMAIN new = DOMAIN old
    /\ \A r \in DOMAIN old \ {roomId} : new[r] = old[r]

IsPatternString(v) == v.type = "string" /\ TerrainPattern(v.text)

(* C6: an edit-tile, edit-tile-exits or resize-room request from a          *)
(* connection whose privilege is below 10 changes no room file, is          *)
(* broadcast to nobody, and is answered with one error to the caller.       *)
C6_UnprivilegedEditRejected ==
    [][\A id \in RoomEditors :
          positions[id].privilege < PrivilegeRequired =>
             /\ \A m \in EditTileMsgs : EditTile(id, m, TRUE) =>
                   roomFiles' = roomFiles /\ OnlyAnErrorTo(sent', id)
             /\ \A m \in EditTileExitsMsgs : EditTileExits(id, m, TRUE) =>
                   roomFiles' = roomFiles /\ OnlyAnErrorTo(sent', id)
             /\ \A m \in ResizeMsgs : ResizeRoom(id, m, TRUE) =>
                   roomFiles' = roomFiles /\ OnlyAnErrorTo(sent', id)]_vars

(* an unprivileged connection has just been refused, after an edit had      *)
(* changed room 0                                                            *)
C6_Witness ==
    /\ steps = 2
    /\ roomFiles # InitRoomFiles
    /\ \E id \in RoomEditors :
          /\ positions[id].privilege < PrivilegeRequired
          /\ sent = << Msg(id, ErrorMsg("Insufficient privileges")) >>

(* C7: after a successful edit-tile at (x,y) with terrain T, the room file  *)
(* read back has a tile at (x,y) whose terrain is T and whose layers,       *)
(* properties and tileExits are as before; every other tile, the exits list *)
(* and the dimensions are as before, and so is every other room file.       *)
C7_EditTileRoundTrip ==
    [][\A id \in RoomEditors, m \in EditTileMsgs :
          (EditTile(id, m, TRUE) /\ "room-updated" \in SentTypes(sent')) =>
             LET old == ReadTile(roomFiles, RoomOf(m), m.x.n, m.y.n)
                 new == ReadTile(roomFiles', RoomOf(m), m.x.n, m.y.n)
             IN  /\ Get(new.terrain) = Get(m.terrain)
                 /\ new.layers = old.layers
                 /\ new.properties = old.properties
                 /\ new.tileExits = old.tileExits
                 /\ SameButTile(roomFiles[RoomOf(m)], roomFiles'[RoomOf(m)],
                                m.x.n, m.y.n)
                 /\ OtherRoomsUntouched(roomFiles, roomFiles', RoomOf(m))]_vars

(* the shipped tile (1,1) of room 0 has just been given the terrain sand    *)
C7_Witness ==
    /\ \E k \in DOMAIN sent :
          /\ sent[k].msg.type = "room-updated"
          /\ sent[k].msg.patch = EditMsg(Num(0), Num(1), Num(1), Str(Sand))
    /\ ReadTile(roomFiles, 0, 1, 1).terrain = Str(Sand)
    /\ ReadTile(roomFiles, 0, 1, 1).layers = ShippedTile(1, 1).layers

(* C8: an edit-tile request whose terrain is absent, empty, not a string or *)
(* not matching [A-Za-z0-9_-]+ is rejected with an error and changes no     *)
(* room file.                                                                *)
C8_MalformedTerrainRejected ==
    [][\A id \in RoomEditors, m \in EditTileMsgs :
          (EditTile(id, m, TRUE) /\ ~IsPatternString(Get(m.terrain))) =>
             roomFiles' = roomFiles /\ OnlyAnErrorTo(sent', id)]_vars

(* C9: after a successful resize-room to (w,h), 1 <= w,h <= 100, the stored *)
(* room has exactly h rows of exactly w tiles each, its width and height    *)
(* are w and h, and every open connection, and no other, is sent exactly    *)
(* one room-resized with that room, width and height; a privileged request  *)
(* for an existing room with such dimensions does succeed.                  *)
C9_ResizeShapeAndBroadcast ==
    [][\A id \in RoomEditors, m \in ResizeMsgs :
          ResizeRoom(id, m, TRUE) =>
             /\ ( /\ positions[id].privilege >= PrivilegeRequired
                  /\ IsInteger(m.width) /\ m.width.n \in 1..MaxRoomSize
                  /\ IsInteger(m.height) /\ m.height.n \in 1..MaxRoomSize
                  /\ m.roomId \in {Num(r) : r \in DOMAIN roomFiles} )
                => "room-resized" \in SentTypes(sent')
             /\ "room-resized" \in SentTypes(sent') =>
                LET new == roomFiles'[RoomOf(m)]
                    note == [type |-> "room-resized", roomId |-> RoomOf(m),
                             width |-> m.width.n, height |-> m.height.n]
                IN  /\ m.width.n \in 1..MaxRoomSize
                    /\ m.height.n \in 1..MaxRoomSize
                    /\ DOMAIN new.tiles = 1..m.height.n
                    /\ \A r \in DOMAIN new.tiles :
                          /\ DOMAIN new.tiles[r] = 1..m.width.n
                          /\ \A c \in DOMAIN new.tiles[r] :
                                new.tiles[r][c] # JsNull
                    /\ new.width = m.width.n
                    /\ new.height = m.height.n
                    /\ \A k \in DOMAIN sent' : sent'[k].msg = note
                    /\ \A c \in DOMAIN clients :
                          Cardinality({k \in DOMAIN sent' : sent'[k].to = c})
                             = IF clients[c] = "OPEN" THEN 1 ELSE 0]_vars

(* room 0 has just been made narrower and taller in one request             *)
C9_Witness ==
    /\ \E k \in DOMAIN sent :
          sent[k].msg = [type |-> "room-resized", roomId |-> 0,
                         width |-> 1, height |-> 3]
    /\ roomFiles[0].width = 1
    /\ roomFiles[0].height = 3
    /\ Len(roomFiles[0].tiles) = 3

(* C10: a resize-room leaves every tile lying inside both the old and the   *)
(* new dimensions as it was, and every cell it adds has terrain 'void'.     *)
C10_ResizeKeepsOverlapAndPadsVoid ==
    [][\A id \in RoomEditors, m \in ResizeMsgs :
          (ResizeRoom(id, m, TRUE) /\ "room-resized" \in SentTypes(sent')) =>
             LET old == roomFiles[RoomOf(m)]
                 new == roomFiles'[RoomOf(m)]
             IN  /\ \A r \in 1..Min({old.height, m.height.n}) :
                       \A c \in 1..Min({old.width, m.width.n}) :
                          new.tiles[r][c] = old.tiles[r][c]
                 /\ \A r \in DOMAIN new.tiles : \A c \in DOMAIN new.tiles[r] :
                       (r > old.height \/ c > old.width) =>
                          new.tiles[r][c].terrain = Str(Void)
                 /\ OtherRoomsUntouched(roomFiles, roomFiles', RoomOf(m))]_vars

(* room 0 has just grown after a tile of it was edited: the edited tile is  *)
(* still there and the third column is void                                 *)
C10_Witness ==
    /\ \E k \in DOMAIN sent :
          sent[k].msg = [type |-> "room-resized", roomId |-> 0,
                         width |-> 3, height |-> 1]
    /\ ReadTile(roomFiles, 0, 0, 0).terrain = Str(Sand)
    /\ ReadTile(roomFiles, 0, 1, 0) = ShippedTile(1, 0)
    /\ ReadTile(roomFiles, 0, 2, 0).terrain = Str(Void)


-----------------------------------------------------------------------------
(* Observations on first-message steps *)

HasPasswordData(rec) == rec.salt # "" /\ rec.hash # NoHash

ClosedUnanswered ==
    /\ lastSocket' = "CLOSED"
    /\ sent' = << >>
    /\ UNCHANGED << clients, positions, nameMap, playerFiles, clientId >>

(* the new socket got exactly this error and was closed, unregistered *)
ClosedWith(text) ==
    /\ lastSocket' = "CLOSED"
    /\ sent' = << Msg(clientId, ErrorMsg(text)) >>
    /\ clientId \notin DOMAIN positions'
    /\ positions' = positions

ClosedWithSomeError ==
    /\ lastSocket' = "CLOSED"
    /\ Len(sent') = 1
    /\ sent'[1].to = clientId
    /\ sent'[1].msg.type = "error"
    /\ positions' = positions

NowAuthenticated(name) ==
    /\ lastSocket' = "OPEN"
    /\ clientId \in DOMAIN positions'
    /\ positions'[clientId].name = name
    /\ clients'[clientId] = "OPEN"
    /\ sent'[1] .to = clientId
    /\ sent'[1].msg.type = "init"

Range(f) == {f[k] : k \in DOMAIN f}

(* C12: a connection becomes authenticated for a name that already has a   *)
(* player file only if the supplied password was verified against that     *)
(* file's salt and hash, whatever the file operations of the handler do.   *)
C12_AdmittedOnlyIfVerified ==
    [][\A m \in FirstMsgs, f \in FileOutcomes :
          ( /\ FirstMessage(m, "s1", f.readOk, f.writeOk)
            /\ ~Malformed(m)
            /\ clientId \in DOMAIN positions'
            /\ m.name \in DOMAIN playerFiles )
          => VerifyPassword(m.password, playerFiles[m.name].salt,
                            playerFiles[m.name].hash)]_vars

(* C13: the salt and hash stored in an existing player file never change,  *)
(* and the file stays.                                                      *)
C13_SaltAndHashNeverChange ==
    [][\A n \in DOMAIN playerFiles :
          /\ n \in DOMAIN playerFiles'
          /\ playerFiles'[n].salt = playerFiles[n].salt
          /\ playerFiles'[n].hash = playerFiles[n].hash]_vars

(* C14: the socket map, the position map and the name map have the same    *)
(* keys, all of them open authenticated connections, and an id is taken    *)
(* only by an authentication that succeeds.                                 *)
C14_RegistryHoldsOnlyAuthenticated ==
    /\ DOMAIN clients = DOMAIN positions
    /\ DOMAIN nameMap = DOMAIN positions
    /\ \A id \in DOMAIN clients : clients[id] = "OPEN"
    /\ clientId = Len(issued)

(* C15: on successful authentication the new connection gets an init with  *)
(* an id that no init carried before and that no connection, registered or *)
(* refused, has or had; every other open connection gets exactly one join  *)
(* with that id, and the new connection gets none.                          *)
C15_FreshIdAndJoinToOthers ==
    [][\A m \in FirstMsgs, f \in FileOutcomes :
          ( /\ FirstMessage(m, "s1", f.readOk, f.writeOk)
            /\ lastSocket' = "OPEN"
            /\ ~Malformed(m) )
          => LET id == sent'[1].msg.id
                 joins(c) == {k \in DOMAIN sent' :
                                 /\ sent'[k].to = c
                                 /\ sent'[k].msg.type = "join"}
             IN  /\ sent'[1].to = id
                 /\ sent'[1].msg.type = "init"
                 /\ id \in DOMAIN positions' \ DOMAIN positions
                 /\ id \notin Range(issued)
                 /\ id \notin DOMAIN clients \cup DOMAIN nameMap
                 /\ \A c \in DOMAIN nameMap \cup Range(issued) : c < id
                 /\ \A k \in DOMAIN sent' :
                       sent'[k].msg.type = "join" => sent'[k].msg.id = id
                 /\ joins(id) = {}
                 /\ \A c \in DOMAIN clients :
                       Cardinality(joins(c))
                          = IF clients[c] = "OPEN" THEN 1 ELSE 0]_vars

(* a second connection has just been admitted while the first is open: it *)
(* got the init with the id 1 and the first connection got the join         *)
C15_Witness ==
    /\ issued = << 0, 1 >>
    /\ DOMAIN positions = {0, 1}
    /\ Len(sent) = 6
    /\ sent[1].msg.type = "init"
    /\ sent[1].msg.id = 1
    /\ sent[6] = Msg(0, [type |-> "join", id |-> 1,
                         pos |-> sent[6].msg.pos])

(* C16: no two registered connections are bound to the same player name.   *)
C16_OneConnectionPerName ==
    \A a, b \in DOMAIN positions :
        positions[a].name = positions[b].name => a = b


HandlingFails(raw) ==
    raw \in {r \in RawMsgs : ~r.parses}
             \cup {r \in RawMsgs : r.json = "null"}
             \cup {r \in RawMsgs : r.type \in {"pickup", "drop"}
                                     /\ r.zone \in {Absent, JsNull}}

C19_FailedRequestAnsweredWithError ==
    [][\A id \in DOMAIN positions :
          /\ \A m \in PickupMsgs :
                (Pickup(id, m) /\ objectInstances' = objectInstances) =>
                   /\ OnlyAnErrorTo(sent', id)
                   /\ UNCHANGED << positions, clients, nameMap, playerFiles,
                                   objectsStateFile, roomFiles >>
          /\ \A m \in DropMsgs :
                (Drop(id, m) /\ objectInstances' = objectInstances) =>
                   /\ OnlyAnErrorTo(sent', id)
                   /\ UNCHANGED << positions, clients, nameMap, playerFiles,
                                   objectsStateFile, roomFiles >>]_vars


(* the events the server scopes to one room *)
RoomScoped ==
    {"object-picked", "object-dropped", "object-spawned", "npc-start-path",
     "npc-move"}

(* the zone and room a room-scoped event is about *)
EventRoom(m, npcs) ==
    IF m.type = "npc-start-path"
    THEN [zone |-> npcs[NpcAt(npcs, m.instanceId)].zone,
          roomId |-> npcs[NpcAt(npcs, m.instanceId)].roomId]
    ELSE IF m.type = "npc-move"
    THEN [zone |-> m.npc.zone, roomId |-> m.npc.roomId]
    ELSE [zone |-> m.instance.zone, roomId |-> m.instance.roomId]

(* the sends of `out` that carry the event m *)
Deliveries(out, m) == {k \in DOMAIN out : out[k].msg = m}

(* C20: every room-scoped event a handler sends (object-picked,            *)
(* object-dropped, object-spawned, npc-start-path, npc-move) goes once to   *)
(* each open connection whose registry entry, as update last left it,       *)
(* has the zone and roomId of the event, and to no other connection.        *)
C20_RoomEventsReachExactlyTheRoom ==
    [][\A i \in DOMAIN sent' :
          sent'[i].msg.type \in RoomScoped =>
             LET m == sent'[i].msg
                 room == EventRoom(m, npcInstances)
                 there == OpenInRoom(clients, positions, room.zone, room.roomId)
             IN  /\ {sent'[k].to : k \in Deliveries(sent', m)} = there
                 /\ Cardinality(Deliveries(sent', m)) = Cardinality(there)]_vars

(* an npc-move has just been sent while one open connection is registered  *)
(* in the NPC's room and another open connection in a different room        *)
C20_Witness ==
    \E i \in DOMAIN sent :
       /\ sent[i].msg.type = "npc-move"
       /\ \E id \in DOMAIN positions :
             /\ IsOpen(clients, id)
             /\ positions[id].roomId # sent[i].msg.npc.roomId
       /\ \E id \in DOMAIN positions :
             /\ IsOpen(clients, id)
             /\ positions[id].zone = sent[i].msg.npc.zone
             /\ positions[id].roomId = sent[i].msg.npc.roomId


(* C30: in a tick, an NPC whose completion timer is pending is skipped by  *)
(* the roaming pass: no npc-start-path is sent for it and its timer is     *)
(* left as it was.                                                          *)
C30_PendingNpcIsSkipped ==
    [][gameTime'.tick = gameTime.tick + 1 =>
          \A iid \in DOMAIN npcTimers :
             /\ iid \in DOMAIN npcTimers'
             /\ npcTimers'[iid] = npcTimers[iid]
             /\ \A i \in DOMAIN sent' :
                   sent'[i].msg.type = "npc-start-path" =>
                      sent'[i].msg.instanceId # iid]_vars


(* the cells a walker standing on start can get to by steps to a           *)
(* neighbouring cell of the grid that is not void                           *)
RECURSIVE Reachable(_, _, _, _)
Reachable(seen, width, height, voids) ==
    LET more == {c \in CellsOf(width, height) \ (seen \cup voids) :
                    \E s \in seen :
                       \/ c[1] = s[1] /\ (c[2] = s[2] + 1 \/ c[2] = s[2] - 1)
                       \/ c[2] = s[2] /\ (c[1] = s[1] + 1 \/ c[1] = s[1] - 1)}
    IN  IF more = {} THEN seen
        ELSE Reachable(seen \cup more, width, height, voids)

Manhattan(a, b) ==
    (IF a[1] >= b[1] THEN a[1] - b[1] ELSE b[1] - a[1])
    + (IF a[2] >= b[2] THEN a[2] - b[2] ELSE b[2] - a[2])

(* C27: in a rectangular room without void tiles, findPath between two     *)
(* in-bounds cells returns a path from the start to the end with exactly   *)
(* Manhattan-distance edges; in any rectangular room, when the end cannot  *)
(* be got to from the start by steps onto non-void cells (a void end other *)
(* than the start included), findPath returns no path.                      *)
C27_FindPathManhattanOrNone ==
    found # NoSearch =>
       /\ found.voids = {} =>
             /\ Len(found.path) - 1 = Manhattan(found.start, found.end)
             /\ found.path[1] = found.start
             /\ found.path[Len(found.path)] = found.end
       /\ found.end \notin Reachable({found.start}, found.width, found.height,
                                     found.voids)
             => found.path = NoPath

(* a search across a room without void tiles whose cells differ in both    *)
(* coordinates has been answered                                            *)
C27_Witness ==
    /\ found # NoSearch
    /\ found.voids = {}
    /\ found.start[1] # found.end[1]
    /\ found.start[2] # found.end[2]
    /\ Len(found.path) = 1 + Manhattan(found.start, found.end)

(* a search for a cell walled off by void cells has been answered *)
C27_WitnessUnreachable ==
    /\ found # NoSearch
    /\ found.end \notin found.voids
    /\ found.end \notin Reachable({found.start}, found.width, found.height,
                                  found.voids)
    /\ found.path = NoPath


(* the step is one run of the tick callback *)
IsTick == gameTime'.tick = gameTime.tick + 1

(* the time-update messages of `out` addressed to `to` *)
TimeUpdatesTo(out, to) ==
    {k \in DOMAIN out : out[k].to = to /\ out[k].msg.type = "time-update"}

(* C21: from the clock (0, 0, 0) on, restarts that reload the persisted    *)
(* clock included, the hour stays within 0..23; and a tick that brings the *)
(* tick counter to a multiple of 60 * 24 moves the day on by one, sets the *)
(* hour to 0, and sends one time-update, for the new day and hour 0, to    *)
(* each open connection.                                                    *)
C21_HourInRangeAndDayRollsOnce ==
    [][/\ gameTime.hour \in 0..(HoursPerDay - 1)
       /\ gameTime'.hour \in 0..(HoursPerDay - 1)
       /\ (IsTick /\ gameTime'.tick % (TicksPerHour * HoursPerDay) = 0) =>
             /\ gameTime'.day = gameTime.day + 1
             /\ gameTime'.hour = 0
             /\ \A i \in DOMAIN sent' :
                   sent'[i].msg.type = "time-update" =>
                      /\ IsOpen(clients, sent'[i].to)
                      /\ sent'[i].msg.day = gameTime.day + 1
                      /\ sent'[i].msg.hour = TimeDisplay(0)
             /\ \A id \in DOMAIN clients :
                   IsOpen(clients, id) =>
                      Cardinality(TimeUpdatesTo(sent', id)) = 1]_vars

(* the day has just rolled over and an open connection was told *)
C21_Witness ==
    /\ gameTime.tick = TicksPerHour * HoursPerDay
    /\ gameTime.day = 1
    /\ gameTime.hour = 0
    /\ \E i \in DOMAIN sent :
          /\ sent[i].msg.type = "time-update"
          /\ sent[i].msg.day = 1

(* the day has just rolled over in a process that was restarted and        *)
(* reloaded the clock a shutdown had written                                *)
C21_WitnessAfterRestart ==
    /\ gameTime.tick = TicksPerHour * HoursPerDay
    /\ gameTime.day = 1
    /\ gameTime.hour = 0
    /\ issued = << >>
    /\ proc = "running"


(* the instance is due for respawn at `tick` *)
DueAt(inst, tick) ==
    /\ inst.pickedUpBy # Null
    /\ inst.respawnAfterSec > 0
    /\ inst.removedAt > 0
    /\ tick - inst.removedAt >= inst.respawnAfterSec

(* C22: a tick sends a time-update, once to each open connection and to    *)
(* no other, and writes the clock to state.json exactly when the tick      *)
(* counter it has incremented is a multiple of 60, and does neither on any *)
(* other tick; the respawn sweep runs on every tick: every instance that   *)
(* is due at the new tick count is back in the world after the tick,       *)
(* whatever the tick count is.                                              *)
C22_MinuteWorkOnTheMinuteRestEveryTick ==
    [][IsTick =>
          /\ \A i \in DOMAIN sent' :
                sent'[i].msg.type = "time-update" =>
                   IsOpen(clients, sent'[i].to)
          /\ \A id \in DOMAIN clients :
                IsOpen(clients, id) =>
                   Cardinality(TimeUpdatesTo(sent', id)) =
                      IF gameTime'.tick % TicksPerHour = 0 THEN 1 ELSE 0
          /\ stateFile' = IF gameTime'.tick % TicksPerHour = 0
                          THEN gameTime' ELSE stateFile
          /\ \A i \in DOMAIN objectInstances :
                DueAt(objectInstances[i], gameTime'.tick) =>
                   objectInstances'[i].pickedUpBy = Null]_vars

(* off the minute, a tick has just respawned the apple, started a route    *)
(* and made the NPC emote, and has sent no time-update                      *)
C22_Witness ==
    /\ gameTime.tick % TicksPerHour # 0
    /\ \E i \in DOMAIN sent : sent[i].msg.type = "object-spawned"
    /\ \E i \in DOMAIN sent : sent[i].msg.type = "npc-start-path"
    /\ \E i \in DOMAIN sent : sent[i].msg.type = "emote"
    /\ \A i \in DOMAIN sent : sent[i].msg.type # "time-update"
    /\ stateFile # gameTime


(* C23: whatever the disk does during a tick or an NPC completion timer,   *)
(* the process does not enter shutdown: a running process is still running *)
(* after the step (no termination signal is sent in SpecFault).             *)
C23_DiskFailureIsNotFatal ==
    [][proc = "running" => proc' = "running"]_vars


(* C24: once shutdown has started no tick executes and no NPC completion   *)
(* timer is armed or fires: a step taken while the process is shutting     *)
(* down leaves the clock, the NPCs and their persisted state alone, and    *)
(* leaves the timer registry empty.                                         *)
C24_NoTickOrTimerOnceShuttingDown ==
    [][proc = "shutting" =>
          /\ gameTime' = gameTime
          /\ npcInstances' = npcInstances
          /\ npcStateFile' = npcStateFile
          /\ npcTimers' = << >>]_vars


Exited == proc \in {"exit0", "exit1"}

C25_WitnessFlushed ==
    /\ proc = "exit0"
    /\ gameTime.tick % TicksPerHour # 0
    /\ stateFile = gameTime


(* C26: once an uncaught exception or an unhandled rejection has been      *)
(* logged, the process is no longer running: it is shutting down or has    *)
(* exited.                                                                  *)
C26_FatalErrorsShutDown ==
    fatalLog \in {"UNCAUGHT_EXCEPTION", "UNHANDLED_REJECTION"} =>
       proc # "running"


(* C28: whatever pickups, drops, respawns and restarts have happened, the  *)
(* world holds exactly one object instance per spawn point of the room     *)
(* files.                                                                   *)
C28_OneInstancePerSpawnPoint ==
    Len(objectInstances) = Len(GatherSpawnDefs(roomFiles))


(* C29: no step of pickup, drop or respawn (or any other handler) removes, *)
(* adds or renames an object instance or changes its typeId; and in every  *)
(* state, that is after every completed handler and sweep, the list in     *)
(* objects-state.json is the list of instances in memory.                  *)
C29_InstancesKeptAndPersisted ==
    /\ [][/\ Len(objectInstances') = Len(objectInstances)
          /\ \A i \in DOMAIN objectInstances :
                /\ objectInstances'[i].instanceId = objectInstances[i].instanceId
                /\ objectInstances'[i].typeId = objectInstances[i].typeId]_vars
    /\ [](objectsStateFile = objectInstances)

(* one instance has been dropped away from its spawn point while another   *)
(* is being carried                                                         *)
C29_Witness ==
    /\ \E i \in DOMAIN objectInstances :
          /\ objectInstances[i].pickedUpBy = Null
          /\ << objectInstances[i].x, objectInstances[i].y >> #
                << InitObjectInstances[i].x, InitObjectInstances[i].y >>
    /\ \E j \in DOMAIN objectInstances : objectInstances[j].pickedUpBy # Null
    /\ objectsStateFile = objectInstances

(* the sweep has just respawned an instance *)
C29_WitnessRespawned ==
    /\ \E n \in DOMAIN sent : sent[n].msg.type = "object-spawned"
    /\ \A i \in DOMAIN objectInstances : objectInstances[i].pickedUpBy = Null
    /\ objectsStateFile = objectInstances


PendingFor(iid) == {t \in timeouts : t.iid = iid}

Cell(npc) == << npc.x, npc.y >>

(* C31: in every state at most one completion timer is pending per NPC     *)
(* instance id, and the pending timers are exactly the registered ones, so *)
(* the timer of a superseded path is not left to fire; and a step that     *)
(* moves an NPC is the firing of its registered timer: the NPC is put on   *)
(* the cell of that timer and its registry entry is gone.                  *)
C31_OnePendingTimerPerNpc ==
    /\ [](/\ \A iid \in TimedNpcs : Cardinality(PendingFor(iid)) <= 1
          /\ timeouts = {Timeout(iid, npcTimers[iid]) : iid \in DOMAIN npcTimers})
    /\ [][\A k \in DOMAIN npcInstances :
             (/\ k \in DOMAIN npcInstances'
              /\ Cell(npcInstances'[k]) # Cell(npcInstances[k])) =>
                LET iid == npcInstances[k].instanceId
                IN  /\ iid \in DOMAIN npcTimers
                    /\ Cell(npcInstances'[k]) = Cell(npcTimers[iid])
                    /\ iid \notin DOMAIN npcTimers']_vars

(* a timer has fired and moved the NPC, and the next path of the same NPC  *)
(* has its timer pending                                                    *)
C31_Witness ==
    /\ \E k \in DOMAIN npcInstances :
          /\ Cell(npcInstances[k]) # Cell(LivelyNpcInstances[k])
          /\ PendingFor(npcInstances[k].instanceId) # {}
    /\ proc = "running"


(* the void cells of a room *)
VoidCells(room) ==
    {c \in CellsOf(room.width, room.height) :
        room.tiles[c[2] + 1][c[1] + 1].terrain = Str(Void)}

(* the least number of steps, each to a neighbouring cell that is not      *)
(* void, from a cell of seen to end, counted from n; -1 when there is no   *)
(* way                                                                      *)
RECURSIVE Distance(_, _, _, _, _, _)
Distance(seen, n, end, width, height, voids) ==
    IF end \in seen THEN n
    ELSE LET more == {c \in CellsOf(width, height) \ (seen \cup voids) :
                         \E s \in seen : Manhattan(c, s) = 1}
         IN  IF more = {} THEN 0 - 1
             ELSE Distance(seen \cup more, n + 1, end, width, height, voids)

StartPathsTo(out, to) ==
    {n \in DOMAIN out : out[n].to = to /\ out[n].msg.type = "npc-start-path"}

(* what a tick does for each NPC whose roll is below its frequency, when   *)
(* routes of at least `least` edges can be accepted: the move is accepted  *)
(* if and only if the target can be walked to and the number L of edges of *)
(* a shortest way is at least `least` and within minDuration..maxDuration; *)
(* then every open connection of the NPC's room gets one npc-start-path    *)
(* with a route of L edges from the NPC's cell to the target, and a timer  *)
(* for the target is registered; otherwise nothing about the NPC is sent,  *)
(* its registry entry stays as it is and the NPC stays where it is.        *)
RoamDecision(least) ==
    \A chances \in [DOMAIN npcInstances ->
                       [randRoll : RandRolls,
                        target : (0..MaxDim) \X (0..MaxDim),
                        toss : Tosses]] :
       (/\ \A k \in DOMAIN npcInstances :
              chances[k] \in Chances(npcInstances[k], roomFiles)
        /\ TickWith(chances)) =>
          \A k \in DOMAIN npcInstances :
             LET npc == npcInstances[k]
                 iid == npc.instanceId
                 room == roomFiles[npc.roomId]
                 L == Distance({Cell(npc)}, 0, chances[k].target, room.width,
                               room.height, VoidCells(room))
                 audience == {id \in DOMAIN positions :
                                 /\ IsOpen(clients, id)
                                 /\ positions[id].zone = npc.zone
                                 /\ positions[id].roomId = npc.roomId}
             IN  (npc.roam.type = "random"
                    /\ chances[k].randRoll < npc.roam.frequency) =>
                   IF /\ L >= least
                      /\ npc.roam.minDuration <= L
                      /\ L <= npc.roam.maxDuration
                   THEN /\ \A id \in audience :
                              /\ Cardinality(StartPathsTo(sent', id)) = 1
                              /\ \A n \in StartPathsTo(sent', id) :
                                    LET path == sent'[n].msg.path
                                    IN  /\ sent'[n].msg.instanceId = iid
                                        /\ Len(path) = L + 1
                                        /\ path[1] = Cell(npc)
                                        /\ path[L + 1] = chances[k].target
                        /\ iid \in DOMAIN npcTimers'
                        /\ Cell(npcTimers'[iid]) = chances[k].target
                        /\ npcTimers'[iid].delay =
                              L * (NpcBaseTileDuration \div npc.roam.rate)
                        /\ npcInstances'[k] = npc
                   ELSE /\ \A id \in DOMAIN clients :
                              StartPathsTo(sent', id) = {}
                        /\ (iid \in DOMAIN npcTimers') = (iid \in DOMAIN npcTimers)
                        /\ iid \in DOMAIN npcTimers =>
                              Cell(npcTimers'[iid]) = Cell(npcTimers[iid])
                        /\ npcInstances'[k] = npc

(* C32: for an NPC that passes the roam roll the move is accepted if and   *)
(* only if the target can be walked to over L >= 1 edges with              *)
(* minDuration <= L <= maxDuration; a target equal to the NPC's own cell   *)
(* (L = 0) is never accepted; a rejected move is a no-op for the NPC.      *)
C32_AcceptedIffLengthInBounds == [][RoamDecision(1)]_vars

(* C32 as stated: the move is accepted for every L >= 0 within the bounds, *)
(* a target equal to the NPC's own cell included.                           *)
C32_AcceptedForEveryLength == [][RoamDecision(0)]_vars

(* a route of two edges has just been accepted under a policy that allows  *)
(* routes of no edge                                                        *)
C32_Witness ==
    /\ \E k \in DOMAIN npcInstances :
          /\ npcInstances[k].roam.minDuration = 0
          /\ npcInstances[k].instanceId \in DOMAIN npcTimers
          /\ npcTimers[npcInstances[k].instanceId].delay = 2 * NpcBaseTileDuration
    /\ \E n \in DOMAIN sent : sent[n].msg.type = "npc-start-path"


(* C33: an accepted path is carried through to its completion: while the   *)
(* process runs, the NPC stays on the start tile and the completion for    *)
(* the path's final tile stays pending, until a step puts the NPC on that  *)
(* final tile, persists the NPC state and tells the room with npc-move.    *)
(* (Without this no accepted path can be said to complete eventually.)     *)
C33_AcceptedPathCompletes ==
    [][\A k \in DOMAIN npcInstances :
          LET npc == npcInstances[k]
              iid == npc.instanceId
          IN  (proc = "running" /\ iid \in DOMAIN npcTimers) =>
                 \/ /\ npcInstances'[k] = npc
                    /\ iid \in DOMAIN npcTimers'
                    /\ Cell(npcTimers'[iid]) = Cell(npcTimers[iid])
                    /\ npcTimers'[iid].delay <= npcTimers[iid].delay
                 \/ /\ Cell(npcInstances'[k]) = Cell(npcTimers[iid])
                    /\ npcStateFile' = SaveNpcState(npcInstances')
                    /\ \E n \in DOMAIN sent' :
                          sent'[n].msg.type = "npc-move"]_vars


(* the emotes of NPC iid in out that are addressed to `to` *)
EmotesOf(out, iid, to) ==
    {n \in DOMAIN out :
        /\ out[n].to = to
        /\ out[n].msg.type = "emote"
        /\ out[n].msg.instanceId = iid}

(* what Math.random can yield in one tick for the first n NPCs *)
RECURSIVE ChanceSeqs(_)
ChanceSeqs(n) ==
    IF n = 0 THEN {<< >>}
    ELSE {Append(cs, c) : cs \in ChanceSeqs(n - 1),
                          c \in Chances(npcInstances[n], roomFiles)}

(* C34: in every tick each NPC with a behavior module has its onTick run   *)
(* exactly once, whether or not the onTick of another NPC has thrown: each *)
(* open connection of its room gets the one emote of the throwing module,  *)
(* and the one emote of the shipped module when its toss asks for it, and  *)
(* no more; what the onTick pass sends comes after every npc-start-path of *)
(* the roaming pass; and the tick leaves the process running with nothing  *)
(* logged as fatal.                                                         *)
C34_OnTickOncePerNpcAfterRoam ==
    [][\A chances \in ChanceSeqs(Len(npcInstances)) :
          TickWith(chances) =>
             /\ \A k \in DOMAIN npcInstances, id \in DOMAIN clients :
                   LET npc == npcInstances[k]
                       hears == /\ IsOpen(clients, id)
                                /\ id \in DOMAIN positions
                                /\ positions[id].zone = npc.zone
                                /\ positions[id].roomId = npc.roomId
                       acts == \/ npc.behavior = ThrowingModule
                               \/ /\ npc.behavior = "fido"
                                  /\ ~Near(npc, positions)
                                  /\ chances[k].toss > 35
                                  /\ chances[k].toss < 50
                   IN  Cardinality(EmotesOf(sent', npc.instanceId, id)) =
                          IF hears /\ acts THEN 1 ELSE 0
             /\ \A n, m \in DOMAIN sent' :
                   (/\ sent'[n].msg.type = "npc-start-path"
                    /\ sent'[m].msg.type \in {"emote", "play-audio"}) => n < m
             /\ proc' = "running"
             /\ fatalLog' = fatalLog]_vars

(* a tick has started a route, the first NPC's onTick has thrown after its *)
(* emote, and the second NPC has barked after it                           *)
C34_Witness ==
    /\ npcInstances[1].behavior = ThrowingModule
    /\ \E a, b, c \in DOMAIN sent :
          /\ a < b /\ b < c
          /\ sent[a].msg.type = "npc-start-path"
          /\ sent[b].msg.type = "emote"
          /\ sent[b].msg.instanceId = npcInstances[1].instanceId
          /\ sent[c].msg.type = "emote"
          /\ sent[c].msg.instanceId = npcInstances[2].instanceId


(* the neighbour order +x, -x, +y, -y *)
NeighbourOrder == << << 1, 0 >>, << 0 - 1, 0 >>, << 0, 1 >>, << 0, 0 - 1 >> >>

(* the number of edges of a shortest walk from cell a to cell end over     *)
(* cells of the grid that are not void, -1 when there is none; a itself    *)
(* may be void only as the start of the search                             *)
WalkLength(a, end, width, height, voids) ==
    Distance({a}, 0, end, width, height, voids)

(* C35: for every rectangular grid and every start and end cell of it,     *)
(* when findPath returns a path it begins at start, ends at end, each pair *)
(* of consecutive tiles is 4-adjacent and in bounds, every tile after the  *)
(* first is not void, its length is the least possible, and at every tile  *)
(* it goes on in the first direction of +x, -x, +y, -y that lies on some   *)
(* shortest walk to the end (the path breadth-first search finds first);   *)
(* it returns no path exactly when no walk exists.                         *)
C35_FindPathShortestFirstFound ==
    found # NoSearch =>
       LET path == found.path
           cells == CellsOf(found.width, found.height)
           L == WalkLength(found.start, found.end, found.width, found.height,
                           found.voids)
           OnShortest(c, left) ==
               /\ c \in cells \ found.voids
               /\ WalkLength(c, found.end, found.width, found.height,
                             found.voids) = left
       IN  /\ (path = NoPath) = (L = 0 - 1)
           /\ path # NoPath =>
                 /\ path[1] = found.start
                 /\ path[Len(path)] = found.end
                 /\ Len(path) - 1 = L
                 /\ \A i \in 1..(Len(path) - 1) :
                       /\ path[i + 1] \in cells \ found.voids
                       /\ Manhattan(path[i], path[i + 1]) = 1
                       /\ \E d \in DOMAIN NeighbourOrder :
                             /\ path[i + 1] =
                                   << path[i][1] + NeighbourOrder[d][1],
                                      path[i][2] + NeighbourOrder[d][2] >>
                             /\ \A e \in 1..(d - 1) :
                                   ~OnShortest(
                                      << path[i][1] + NeighbourOrder[e][1],
                                         path[i][2] + NeighbourOrder[e][2] >>,
                                      L - i)

(* a search between opposite corners of a 2 x 2 block has been answered    *)
(* with the walk along x first                                              *)
C35_Witness ==
    /\ found # NoSearch
    /\ found.voids = {}
    /\ found.path = << << 0, 0 >>, << 1, 0 >>, << 1, 1 >> >>

(* a search has been answered with a walk around a void cell that is       *)
(* longer than the Manhattan distance                                       *)
C35_WitnessDetour ==
    /\ found # NoSearch
    /\ found.path # NoPath
    /\ Len(found.path) - 1 > Manhattan(found.start, found.end)

-----------------------------------------------------------------------------
(* C36: when the write of the room file fails during edit-tile,            *)
(* edit-tile-exits or resize-room, the caller alone is sent one error, no  *)
(* room-updated or room-resized goes to any connection, and the room files *)
(* that later requests read are as they were.                              *)

FailedRoomWrite(id) ==
    \/ \E m \in EditTileMsgs : EditTile(id, m, FALSE)
    \/ \E m \in EditTileExitsMsgs : EditTileExits(id, m, FALSE)
    \/ \E m \in ResizeMsgs : ResizeRoom(id, m, FALSE)

SaveFailures ==
    {"Failed to save room changes", "Failed to save tile exits",
     "Failed to save room resize"}

C36_FailedRoomWriteChangesNothing ==
    [][\A id \in DOMAIN positions :
          FailedRoomWrite(id) =>
              /\ roomFiles' = roomFiles
              /\ Len(sent') = 1
              /\ sent'[1].to = id
              /\ sent'[1].msg.type = "error"
              /\ \A i \in 1..Len(sent') :
                    sent'[i].msg.type \notin {"room-updated", "room-resized"}]_vars

(* A write has failed after an earlier edit went through: the caller holds *)
(* the save error and the file still carries the earlier edit only.        *)
C36_Witness ==
    /\ Len(sent) = 1
    /\ sent[1].msg.type = "error"
    /\ sent[1].msg.message \in SaveFailures
    /\ roomFiles # InitRoomFiles
    /\ steps = 2

-----------------------------------------------------------------------------
(* C37: after a drop that is accepted, the instance's zone and roomId are  *)
(* the zone and room under which the dropping connection is registered.    *)

DropLandsWhereDropperIs(id, m) ==
    LET k == FindInstance(objectInstances, m.instanceId)
    IN  (k # 0 /\ DropAccepts(objectInstances[k], nameMap[id])) =>
            /\ objectInstances'[k].zone = positions[id].zone
            /\ objectInstances'[k].roomId = positions[id].roomId

C37_DropOnlyIntoOwnRoom ==
    [][\A id \in DOMAIN positions, m \in DropMsgs :
          Drop(id, m) => DropLandsWhereDropperIs(id, m)]_vars

-----------------------------------------------------------------------------
(* C38: whenever a player's record is written, on an accepted drop and on  *)
(* disconnect, the inventory written is the set of instances whose         *)
(* pickedUpBy is that player's name at that moment.                        *)

PersistedInventoryIsHeld(id) ==
    playerFiles'[nameMap[id]].inventory
        = InventoryOf(objectInstances', nameMap[id])

C38_PersistedInventoryIsWhatIsHeld ==
    [][\A id \in DOMAIN positions :
          /\ Close(id) => PersistedInventoryIsHeld(id)
          /\ \A m \in DropMsgs :
                (Drop(id, m) /\ playerFiles' # playerFiles)
                    => PersistedInventoryIsHeld(id)]_vars

-----------------------------------------------------------------------------
(* C39: at every state, after any sequence of NPC moves, edit-tile and     *)
(* resize-room operations, every NPC's authoritative (x, y) lies inside    *)
(* the current tile grid of its room: 0 <= x < width and 0 <= y < height.  *)

InsideGrid(npc, rooms) ==
    /\ 0 <= npc.x /\ npc.x < rooms[npc.roomId].width
    /\ 0 <= npc.y /\ npc.y < rooms[npc.roomId].height

C39_NpcInsideItsRoom ==
    \A k \in DOMAIN npcInstances : InsideGrid(npcInstances[k], roomFiles)

-----------------------------------------------------------------------------
(* C40: in every reachable state, for every object instance, removedAt is  *)
(* non-null if and only if pickedUpBy is non-null.                         *)

C40_RemovedAtIffPickedUp ==
    \A i \in DOMAIN objectInstances :
        (objectInstances[i].removedAt # NullNum)
            <=> (objectInstances[i].pickedUpBy # Null)

(* One instance is held, taken at tick 0 (a removal tick that is falsy but *)
(* not null), and another has been picked up and dropped again.            *)
C40_Witness ==
    /\ \E i \in DOMAIN objectInstances :
          /\ objectInstances[i].pickedUpBy # Null
          /\ objectInstances[i].removedAt = 0
    /\ \E j \in DOMAIN objectInstances :
          /\ objectInstances[j].pickedUpBy = Null
          /\ objectInstances[j].x = 3
          /\ objectInstances[j].y = 4

(* The tick just taken has respawned an instance that was held *)
C40_WitnessRespawned ==
    \E k \in DOMAIN sent :
        /\ sent[k].msg.type = "object-spawned"
        /\ \E i \in DOMAIN objectInstances :
              /\ objectInstances[i] = sent[k].msg.instance
              /\ objectInstances[i].pickedUpBy = Null

=============================================================================
